---- MODULE Spec2Model ----
(***************************************************************************)
(* Model of the image backend (backend/app/api, backend/app/service,       *)
(* backend/storage, backend/utils) and of the stand-alone app src/main.py. *)
(*                                                                         *)
(* Text is a sequence of one-character strings; bytes are sequences of     *)
(* integers 0..255.  An optional value is a record [some, v].              *)
(* The external services (embedding API, vision-language API, Milvus,      *)
(* MinIO, the file system) are the environment: what they answer is chosen *)
(* with \E in the handler that calls them.                                 *)
(***************************************************************************)
EXTENDS Integers, Sequences, FiniteSets, TLC

VARIABLES
    rows,          \* the Milvus collection: the rows inserted, in order
    objects,       \* the MinIO bucket: the object names stored
    minio_client,  \* the module global _minio_client: "unset" or "set"
    pc,            \* "idle", or "responded" while a response is being sent
    req,           \* the request being answered
    resp,          \* the response to it
    trace,         \* what the handler did for it, in order
    out            \* result of the pure function applied (function specifications)

vars == <<rows, objects, minio_client, pc, req, resp, trace, out>>

-----------------------------------------------------------------------------
(* Bounds of the model *)

\* rows the collection may hold
MaxRows == 2
\* files in one multi-file request
MaxFiles == 2

-----------------------------------------------------------------------------
(* Characters and Python string functions *)

UpperChars == <<"A","B","C","D","E","F","G","H","I","J","K","L","M",
                "N","O","P","Q","R","S","T","U","V","W","X","Y","Z">>
LowerChars == <<"a","b","c","d","e","f","g","h","i","j","k","l","m",
                "n","o","p","q","r","s","t","u","v","w","x","y","z">>
DigitChars == {"0","1","2","3","4","5","6","7","8","9"}
HexChars == DigitChars \cup {"a","b","c","d","e","f"}

\* one code point outside ASCII (a CJK character)
NonAsciiChars == {"CJK"}

IsUpper(c) == \E i \in 1..Len(UpperChars) : UpperChars[i] = c
IsLower(c) == \E i \in 1..Len(LowerChars) : LowerChars[i] = c
IsAlnum(c) == IsUpper(c) \/ IsLower(c) \/ c \in DigitChars

lower_char(c) ==
    IF IsUpper(c)
    THEN LowerChars[CHOOSE i \in 1..Len(UpperChars) : UpperChars[i] = c]
    ELSE c

\* str.lower()
lower(s) == [i \in 1..Len(s) |-> lower_char(s[i])]

\* str.rfind(c), 1-based, 0 when absent
rfind(s, c) ==
    IF \E i \in 1..Len(s) : s[i] = c
    THEN CHOOSE i \in 1..Len(s) : s[i] = c /\ \A j \in (i+1)..Len(s) : s[j] # c
    ELSE 0

\* str.find(c), 1-based, 0 when absent
find(s, c) ==
    IF \E i \in 1..Len(s) : s[i] = c
    THEN CHOOSE i \in 1..Len(s) : s[i] = c /\ \A j \in 1..(i-1) : s[j] # c
    ELSE 0

\* str.startswith(p)
startswith(s, p) == Len(s) >= Len(p) /\ SubSeq(s, 1, Len(p)) = p

\* os.path.splitext (posixpath): <<root, ext>>; leading dots of the last
\* component do not start an extension
splitext(p) ==
    LET sep == rfind(p, "/")
        dot == rfind(p, ".")
    IN  IF dot > sep /\ (\E k \in (sep+1)..(dot-1) : p[k] # ".")
        THEN <<SubSeq(p, 1, dot-1), SubSeq(p, dot, Len(p))>>
        ELSE <<p, <<>>>>

\* os.path.basename (posixpath)
basename(p) == SubSeq(p, rfind(p, "/") + 1, Len(p))

\* str.strip("/")
RECURSIVE lstrip_slash(_)
lstrip_slash(s) ==
    IF s # <<>> /\ Head(s) = "/" THEN lstrip_slash(Tail(s)) ELSE s

RECURSIVE rstrip_slash(_)
rstrip_slash(s) ==
    IF s # <<>> /\ s[Len(s)] = "/"
    THEN rstrip_slash(SubSeq(s, 1, Len(s)-1)) ELSE s

strip_slash(s) == rstrip_slash(lstrip_slash(s))

\* str.split("/"): the sequence of parts (one part for a text without "/")
RECURSIVE split_slash(_)
split_slash(s) ==
    LET k == find(s, "/")
    IN  IF k = 0 THEN <<s>>
        ELSE <<SubSeq(s, 1, k-1)>> \o split_slash(SubSeq(s, k+1, Len(s)))

\* "/".join(parts)
RECURSIVE join_slash(_)
join_slash(parts) ==
    IF parts = <<>> THEN <<>>
    ELSE IF Len(parts) = 1 THEN parts[1]
    ELSE parts[1] \o <<"/">> \o join_slash(Tail(parts))

-----------------------------------------------------------------------------
(* hashlib.md5(...).hexdigest(): a deterministic digest of 32 hex digits.  *)
(* The digest itself is the library's; the model keeps that it is a        *)
(* function of the text and that its digits are hexadecimal.               *)

CodeTable == UpperChars \o LowerChars \o
             <<"0","1","2","3","4","5","6","7","8","9",
               "_","-",".","/"," ",":",";",",","=","!","CJK">>

Code(c) == CHOOSE i \in 1..Len(CodeTable) : CodeTable[i] = c

HexDigits == <<"0","1","2","3","4","5","6","7","8","9","a","b","c","d","e","f">>

RECURSIVE WeightedSum(_, _)
WeightedSum(s, k) ==
    IF s = <<>> THEN 0
    ELSE (Code(s[Len(s)]) * (Len(s) + k) + WeightedSum(SubSeq(s, 1, Len(s)-1), k)) % 16

DigestLen == 32

compute_args_hash(s) == [k \in 1..DigestLen |-> HexDigits[WeightedSum(s, k) + 1]]

\* compute_mdhash_id(content, prefix = "")
compute_mdhash_id(content) == compute_args_hash(content)

-----------------------------------------------------------------------------
(* backend/utils/stringutils.py *)

contains_non_ascii(text) == \E i \in 1..Len(text) : text[i] \in NonAsciiChars

uploads == <<"u","p","l","o","a","d","s">>
folder_prefix == <<"f","o","l","d","e","r","_">>
dot_jpg == <<".","j","p","g">>

FolderHashLen == 12

\* a cleaning of folder names that keeps the dot, as the one of file names does
sanitize_folder_name_keeping_dots(folder_name) ==
    IF folder_name = <<>> THEN uploads
    ELSE IF contains_non_ascii(folder_name)
    THEN folder_prefix \o SubSeq(compute_args_hash(folder_name), 1, FolderHashLen)
    ELSE [i \in 1..Len(folder_name) |->
            IF IsAlnum(folder_name[i]) \/ folder_name[i] \in {"_", ".", "-"}
            THEN folder_name[i] ELSE "_"]

sanitize_folder_name(folder_name) ==
    IF folder_name = <<>> THEN uploads
    ELSE IF contains_non_ascii(folder_name)
    THEN folder_prefix \o SubSeq(compute_args_hash(folder_name), 1, FolderHashLen)
    ELSE [i \in 1..Len(folder_name) |->
            IF IsAlnum(folder_name[i]) \/ folder_name[i] \in {"_", "-"}
            THEN folder_name[i] ELSE "_"]

\* u16 is uuid.uuid4().hex[:16], drawn by the caller
sanitize_filename(filename, u16) ==
    IF filename = <<>> THEN u16 \o dot_jpg
    ELSE
      LET parts == splitext(filename)
          ext0 == lower(parts[2])
          file_ext == IF ext0 = <<>> THEN dot_jpg ELSE ext0
          file_basename == basename(parts[1])
          sanitized_basename ==
              [i \in 1..Len(file_basename) |->
                  IF IsAlnum(file_basename[i]) \/ file_basename[i] \in {"_", ".", "-"}
                  THEN file_basename[i] ELSE "_"]
      IN  IF contains_non_ascii(file_basename) THEN u16 \o file_ext
          ELSE IF sanitized_basename # <<>> THEN sanitized_basename \o file_ext
          ELSE u16 \o file_ext

-----------------------------------------------------------------------------
(* Allowed extensions and object names *)

ALLOWED_EXTENSIONS ==
    { <<".","j","p","g">>, <<".","j","p","e","g">>,
      <<".","p","n","g">>, <<".","b","m","p">> }

\* an optional text
None == [some |-> FALSE, v |-> <<>>]
Some(s) == [some |-> TRUE, v |-> s]
\* Python truthiness of an optional text
Truthy(o) == o.some /\ o.v # <<>>

\* api_upload_to_minio: the folder part of the object name
minio_folder_path(folder) ==
    IF Truthy(folder)
    THEN LET folder_parts == split_slash(strip_slash(folder.v))
         IN  join_slash([i \in 1..Len(folder_parts) |->
                            sanitize_folder_name(folder_parts[i])])
    ELSE uploads

\* f"{folder_path}/{date_folder}/{file_uuid}-{sanitized_filename}"
object_name_of(folder_path, date_folder, file_uuid, sanitized_filename) ==
    folder_path \o <<"/">> \o date_folder \o <<"/">> \o file_uuid \o <<"-">>
        \o sanitized_filename

\* api_upload_to_minio: the object name of one file
minio_object_name(folder, filename, date_folder, file_uuid, u16) ==
    object_name_of(minio_folder_path(folder), date_folder, file_uuid,
                   sanitize_filename(filename, u16))

\* api_upload_image: the object name of one file of category file_category
upload_object_name(file_category, filename, date_folder, file_uuid, u16) ==
    object_name_of(
        sanitize_folder_name(IF file_category # <<>> THEN file_category ELSE uploads),
        date_folder, file_uuid, sanitize_filename(filename, u16))

\* the extension checks of the handlers
ext_ok_lowered(filename) == lower(splitext(filename)[2]) \in ALLOWED_EXTENSIONS
ext_ok_exact(filename) == splitext(filename)[2] \in ALLOWED_EXTENSIONS

-----------------------------------------------------------------------------
(* Values a client or the environment may supply *)

NameSamples ==
    { <<"a",".","j","p","g">>,
      <<"b",".","P","N","G">>,
      <<"c",".","t","x","t">>,
      <<".",".","/","x",".","p","n","g">>,
      <<"a"," ","b",".","J","P","E","G">>,
      <<"CJK",".","b","m","p">>,
      <<".","h",".","j","p","g">>,
      <<".",".","j","p","g">>,
      <<"a",".",".","b","m","p">>,
      <<"d","/","CJK",".","e",".","p","n","g">>,
      <<"x",".","t","a","r",".","j","p","g">>,
      <<"n","o","e","x","t">>,
      <<".",".","a",".","p","n","g">>,
      <<".",".",".","/","y",".","J","p","g">> }

FolderSamples ==
    { <<>>,
      <<"/">>,
      <<"a","/","b">>,
      <<"a","/","/","b">>,
      <<".",".","/","x">>,
      <<"CJK">>,
      <<"a"," ","b">>,
      <<".">>,
      <<"/","p"," ","q","/","CJK","/">> }

\* datetime.now().strftime("%Y-%m-%d")
DateSamples ==
    { <<"2","0","2","6","-","1","1","-","0","1">>,
      <<"1","9","9","9","-","1","2","-","3","1">> }

\* str(uuid.uuid4())[:8]
Uuid8Samples ==
    { <<"0","a","1","b","2","c","3","d">>, <<"f","f","f","f","f","f","f","f">> }

\* uuid.uuid4().hex[:16]
Uuid16Samples ==
    { <<"0","a","1","b","2","c","3","d","4","e","5","f","6","0","7","1">> }

NoReq == [ep |-> "none"]
NoResp == [kind |-> "none"]
NoOut == [kind |-> "none"]

-----------------------------------------------------------------------------
(* Specification of the object names: the inputs are drawn at the start,   *)
(* and each action builds the name its handler hands to upload_file.       *)

InitNames ==
    /\ rows = <<>>
    /\ objects = {}
    /\ minio_client = "unset"
    /\ pc = "idle"
    /\ req \in [ep : {"names"},
                folder : {None} \cup {Some(f) : f \in FolderSamples},
                filename : NameSamples,
                date : DateSamples,
                uuid8 : Uuid8Samples,
                u16 : Uuid16Samples]
    /\ resp = NoResp
    /\ trace = <<>>
    /\ out = NoOut

\* api_upload_to_minio, lines 52-84: the extension check, then the name
NameForMinio ==
    /\ pc = "idle"
    /\ ext_ok_lowered(req.filename)
    /\ out' = [kind |-> "minio",
               name |-> minio_object_name(req.folder, req.filename, req.date,
                                          req.uuid8, req.u16)]
    /\ pc' = "named"
    /\ UNCHANGED <<rows, objects, minio_client, req, resp, trace>>

\* api_upload_image, lines 101-117: the extension check, then the name; the
\* category of the file is the folder text (a category is never None here)
NameForUpload ==
    /\ pc = "idle"
    /\ req.folder.some
    /\ ext_ok_exact(req.filename)
    /\ out' = [kind |-> "upload",
               name |-> upload_object_name(req.folder.v, req.filename, req.date,
                                           req.uuid8, req.u16)]
    /\ pc' = "named"
    /\ UNCHANGED <<rows, objects, minio_client, req, resp, trace>>

NextNames == NameForMinio \/ NameForUpload

SpecNames == InitNames /\ [][NextNames]_vars

ObjectNameChars ==
    {c \in {CodeTable[i] : i \in 1..Len(CodeTable)} : IsAlnum(c)} \cup {"_", "-", ".", "/"}

IsDate(s) ==
    /\ Len(s) = 10
    /\ \A i \in {1,2,3,4,6,7,9,10} : s[i] \in DigitChars
    /\ s[5] = "-" /\ s[8] = "-"

endswith(s, e) == Len(s) >= Len(e) /\ SubSeq(s, Len(s) - Len(e) + 1, Len(s)) = e

WellFormedObjectName(name, filename) ==
    LET segs == split_slash(name)
        n == Len(segs)
        last == segs[n]
    IN  /\ n >= 3
        /\ IsDate(segs[n-1])
        /\ Len(last) > 9
        /\ \A i \in 1..8 : last[i] \in HexChars
        /\ last[9] = "-"
        /\ \A i \in 1..Len(name) : name[i] \in ObjectNameChars
        /\ endswith(name, lower(splitext(filename)[2]))
        /\ splitext(filename)[2] # <<>>
        /\ \A i \in 1..n : segs[i] \notin { <<>>, <<".">>, <<".",".">> }

\* C10: every object name built for object storage has the form
\* <folder path>/<YYYY-MM-DD>/<8 hex characters>-<file name>, is made of
\* a-z A-Z 0-9 _ - . / only, ends with the lowercased extension of the uploaded
\* file and has no empty, "." or ".." path segment.
C10_ObjectNameSafe ==
    out.kind \in {"minio", "upload"} => WellFormedObjectName(out.name, req.filename)

\* a name built from a folder and a file name that both needed cleaning
C10_Witness ==
    /\ out.kind = "minio"
    /\ req.folder = Some(<<".",".","/","x">>)
    /\ req.filename = <<".",".",".","/","y",".","J","p","g">>
    /\ out.name = <<"_","_","/","x","/">> \o req.date \o <<"/">> \o req.uuid8
                    \o <<"-","y",".","j","p","g">>

-----------------------------------------------------------------------------
(* Responses *)

MessageCode_SUCCESS == 200
MessageCode_FAIL == 201

\* MessageStatus.SUCCESS and MessageStatus.FAIL; the other messages are the
\* f-string templates of the handlers, named by what they say
MessageStatus_SUCCESS == "SUCCESS"
MessageStatus_FAIL == "FAIL"

\* the data of an envelope
Null == [tag |-> "null"]
TracebackOf(exc) == [tag |-> "traceback", exc |-> exc]
ErrMsgOf(prefix, exc) == [tag |-> "errmsg", prefix |-> prefix, exc |-> exc]
ResultOf(v) == [tag |-> "result", v |-> v]

\* ApiResponse / SearchResponse: a body with the fields code, msg and data
ApiResponse(code, msg, data) ==
    [kind |-> "envelope", fields |-> {"code", "msg", "data"},
     code |-> code, msg |-> msg, data |-> data]

\* a failure envelope that carries the success text
FailTraceback_with_success_text(exc) ==
    ApiResponse(MessageCode_FAIL, MessageStatus_SUCCESS, TracebackOf(exc))

\* what every handler's last except clause returns
FailTraceback(exc) ==
    ApiResponse(MessageCode_FAIL, MessageStatus_FAIL, TracebackOf(exc))

\* an exception that leaves the handler: the framework answers 500 with a
\* plain-text body
Unhandled(exc) ==
    [kind |-> "unhandled", fields |-> {}, code |-> 500, msg |-> exc, data |-> Null]

\* a JSONResponse of src/main.py with the given top-level fields
JSONResponse(fields) ==
    [kind |-> "json", fields |-> fields, code |-> 200, msg |-> "", data |-> Null]

\* an HTTPException of src/main.py: body {"detail": ...}
HTTPException(status_code) ==
    [kind |-> "http_error", fields |-> {"detail"}, code |-> status_code,
     msg |-> "", data |-> Null]

\* an event of a handler's run
Ev(op, i, data, ok) == [op |-> op, i |-> i, data |-> data, ok |-> ok]

\* the outcome of a call: a value, or an exception of type exc; ev is what
\* the call did
Returned(val, ev) == [raised |-> FALSE, exc |-> "", val |-> val, ev |-> ev]
Raised(exc, ev) == [raised |-> TRUE, exc |-> exc, val |-> Null, ev |-> ev]

-----------------------------------------------------------------------------
(* Image bytes.  validate_image opens the bytes with PIL and verifies them; *)
(* the decoder is the library's.  Here the bytes are an image when they    *)
(* begin with the signature of one of the formats the backend names.       *)

BmpMagic == <<66, 77>>
JpegMagic == <<255, 216, 255>>
PngMagic == <<137, 80, 78, 71, 13, 10, 26, 10>>

validate_image(contents) ==
    \/ startswith(contents, BmpMagic)
    \/ startswith(contents, JpegMagic)
    \/ startswith(contents, PngMagic)

ValidBytes == <<66, 77, 0>>
InvalidBytes == <<0, 0, 0>>
ByteSamples == {ValidBytes, InvalidBytes}

-----------------------------------------------------------------------------
(* base64.b64decode (binascii.a2b_base64, not strict) *)

B64Table == UpperChars \o LowerChars \o
            <<"0","1","2","3","4","5","6","7","8","9","+","/">>

IsB64(c) == \E i \in 1..Len(B64Table) : B64Table[i] = c
B64Val(c) == (CHOOSE i \in 1..Len(B64Table) : B64Table[i] = c) - 1

RECURSIVE a2b_base64(_, _, _, _, _)
a2b_base64(s, quad_pos, leftchar, pads, acc) ==
    IF s = <<>>
    THEN IF quad_pos # 0 THEN [ok |-> FALSE, bytes |-> <<>>]
         ELSE [ok |-> TRUE, bytes |-> acc]
    ELSE
      LET ch == Head(s) IN
      IF ch = "="
      THEN IF quad_pos >= 2 /\ quad_pos + pads + 1 >= 4
           THEN [ok |-> TRUE, bytes |-> acc]
           ELSE a2b_base64(Tail(s), quad_pos, leftchar,
                           IF quad_pos >= 2 THEN pads + 1 ELSE pads, acc)
      ELSE IF ~IsB64(ch)
      THEN a2b_base64(Tail(s), quad_pos, leftchar, pads, acc)
      ELSE
        LET v == B64Val(ch) IN
        CASE quad_pos = 0 -> a2b_base64(Tail(s), 1, v, 0, acc)
          [] quad_pos = 1 ->
               a2b_base64(Tail(s), 2, v % 16, 0,
                          Append(acc, leftchar * 4 + (v \div 16)))
          [] quad_pos = 2 ->
               a2b_base64(Tail(s), 3, v % 4, 0,
                          Append(acc, leftchar * 16 + (v \div 4)))
          [] OTHER ->
               a2b_base64(Tail(s), 0, 0, 0, Append(acc, leftchar * 64 + v))

\* b64decode of a str: non-ASCII text is refused before decoding
b64decode(s) ==
    IF contains_non_ascii(s) THEN [ok |-> FALSE, bytes |-> <<>>]
    ELSE a2b_base64(s, 0, 0, 0, <<>>)

\* text up to the first c (all of it when c is absent)
before_first(s, c) == IF find(s, c) = 0 THEN s ELSE SubSeq(s, 1, find(s, c) - 1)
after_first(s, c) == SubSeq(s, find(s, c) + 1, Len(s))

data_prefix == <<"d","a","t","a",":">>
image_jpeg == <<"i","m","a","g","e","/","j","p","e","g">>
image_png == <<"i","m","a","g","e","/","p","n","g">>
image_bmp == <<"i","m","a","g","e","/","b","m","p">>

\* compare.py, decode_base64_image, lines 297-316: the body of the try;
\* ok = FALSE when a statement of it raises (split without a comma,
\* binascii.Error of b64decode)
decode_body(base64_str) ==
    IF startswith(base64_str, data_prefix)
    THEN IF find(base64_str, ",") = 0
         THEN [ok |-> FALSE, exc |-> "ValueError", data |-> <<>>, mime |-> <<>>]
         ELSE LET header == before_first(base64_str, ",")
                  data == after_first(base64_str, ",")
                  mime_type == before_first(
                                  before_first(after_first(header, ":"), ":"), ";")
                  dec == b64decode(data)
              IN  IF dec.ok
                  THEN [ok |-> TRUE, exc |-> "", data |-> dec.bytes, mime |-> mime_type]
                  ELSE [ok |-> FALSE, exc |-> "binascii.Error", data |-> <<>>, mime |-> <<>>]
    ELSE LET dec == b64decode(base64_str)
         IN  IF ~dec.ok
             THEN [ok |-> FALSE, exc |-> "binascii.Error", data |-> <<>>, mime |-> <<>>]
             ELSE [ok |-> TRUE, exc |-> "", data |-> dec.bytes,
                   mime |-> IF startswith(dec.bytes, JpegMagic) THEN image_jpeg
                            ELSE IF startswith(dec.bytes, PngMagic) THEN image_png
                            ELSE IF startswith(dec.bytes, BmpMagic) THEN image_bmp
                            ELSE image_jpeg]

\* a decode_base64_image without the except clause: the exception of the
\* body leaves as it is
decode_base64_image_reraising(base64_str) == decode_body(base64_str)

\* decode_base64_image: whatever the body raises leaves as a ValueError
\* (lines 317-318)
decode_base64_image(base64_str) ==
    LET r == decode_body(base64_str)
    IN  IF r.ok THEN r ELSE [r EXCEPT !.exc = "ValueError"]

-----------------------------------------------------------------------------
(* The environment of one request *)

\* the call of the request that the environment lets fail, if any
NoFault == [op |-> "none", i |-> 0]
FaultAt(op, i) == [op |-> op, i |-> i]

\* answers of the vision-language API: HTTP status and what the output holds
\* ("json": a JSON object with the three fields; "empty": no output;
\* "bad_confidence": a JSON object whose confidence is no number)
VlSamples ==
    { [status |-> 200, kind |-> "json",
       result |-> [is_same |-> TRUE, confidence |-> 90, reason |-> "r"]],
      [status |-> 200, kind |-> "empty",
       result |-> [is_same |-> FALSE, confidence |-> 0, reason |-> ""]],
      [status |-> 200, kind |-> "bad_confidence",
       result |-> [is_same |-> TRUE, confidence |-> 0, reason |-> "r"]],
      [status |-> 500, kind |-> "empty",
       result |-> [is_same |-> FALSE, confidence |-> 0, reason |-> ""]] }

\* lines 111-196 of imgcompare.py (and 366-421): from the API's answer to
\* the result, or the exception raised on the way
vl_result(vl, ev) ==
    IF vl.status # 200 THEN Raised("Exception", ev)
    ELSE IF vl.kind = "empty" THEN Raised("ValueError", ev)
    ELSE IF vl.kind = "bad_confidence" THEN Raised("ValueError", ev)
    ELSE Returned(ResultOf(vl.result), ev)

-----------------------------------------------------------------------------
(* backend/app/service/imgcompare.py *)

\* a compare service that sends the images without validating them
compare_images_service_unvalidated(image1_data, image2_data, vl, fault) ==
    LET ev == <<Ev("vl_call", 0, <<image1_data, image2_data>>, fault.op # "vl")>>
    IN  IF fault.op = "vl" THEN Raised("RequestException", ev)
        ELSE vl_result(vl, ev)

\* compare_images_service: both images are validated, then one call of
\* MultiModalConversation carries the two data URLs
compare_images_service(image1_data, image2_data, vl, fault) ==
    IF ~validate_image(image1_data)
    THEN Raised("ValueError", <<Ev("validate", 1, image1_data, FALSE)>>)
    ELSE IF ~validate_image(image2_data)
    THEN Raised("ValueError", <<Ev("validate", 1, image1_data, TRUE),
                                Ev("validate", 2, image2_data, FALSE)>>)
    ELSE
      LET ev == <<Ev("validate", 1, image1_data, TRUE),
                  Ev("validate", 2, image2_data, TRUE),
                  Ev("vl_call", 0, <<image1_data, image2_data>>, fault.op # "vl")>>
      IN  IF fault.op = "vl" THEN Raised("RequestException", ev)
          ELSE vl_result(vl, ev)

\* compare_images_by_url_service: the two URLs go to the model as they are
compare_images_by_url_service(image1_url, image2_url, vl, fault) ==
    LET ev == <<Ev("vl_call_url", 0, <<image1_url, image2_url>>, fault.op # "vl")>>
    IN  IF fault.op = "vl" THEN Raised("RequestException", ev)
        ELSE vl_result(vl, ev)

-----------------------------------------------------------------------------
(* backend/app/api/compare.py *)

\* what a handler hands back: the response and what it did
Done(response, ev) == [resp |-> response, ev |-> ev]

\* lines 106-135 (and the like in the other handlers): the service call in a
\* worker thread, the success envelope, and the except clauses; verr is the
\* response of the handler's "except ValueError" clause when it has one
AfterService(r, ev, has_value_error_clause) ==
    IF ~r.raised
    THEN Done(ApiResponse(MessageCode_SUCCESS, MessageStatus_SUCCESS, r.val), ev \o r.ev)
    ELSE IF has_value_error_clause /\ r.exc = "ValueError"
    THEN Done(ApiResponse(MessageCode_FAIL, MessageStatus_FAIL,
                          ErrMsgOf("PARAMETER_ERROR", r.exc)), ev \o r.ev)
    ELSE Done(FailTraceback(r.exc), ev \o r.ev)

\* POST /compare
api_compare_images(image1, image2, vl, fault) ==
    LET ok1 == ext_ok_lowered(image1.filename)
        ok2 == ext_ok_lowered(image2.filename)
        e1 == <<Ev("ext_check", 1, <<>>, ok1)>>
        e2 == e1 \o <<Ev("ext_check", 2, <<>>, ok2)>>
        r1 == e2 \o <<Ev("read", 1, <<>>, fault # FaultAt("read", 1))>>
        r2 == r1 \o <<Ev("read", 2, <<>>, fault # FaultAt("read", 2))>>
    IN  IF ~ok1
        THEN Done(ApiResponse(MessageCode_FAIL, "IMAGE1_FORMAT_UNSUPPORTED", Null), e1)
        ELSE IF ~ok2
        THEN Done(ApiResponse(MessageCode_FAIL, "IMAGE2_FORMAT_UNSUPPORTED", Null), e2)
        ELSE IF fault = FaultAt("read", 1) THEN Done(FailTraceback("OSError"), r1)
        ELSE IF fault = FaultAt("read", 2) THEN Done(FailTraceback("OSError"), r2)
        ELSE AfterService(
                compare_images_service(image1.data, image2.data, vl, fault), r2, FALSE)

\* the outcome of the checks a handler makes before it works: the message
\* of the check that failed ("" when none did) and the checks made
Checked(msg, ev) == [msg |-> msg, ev |-> ev]

\* a handler that checks each path fully before it looks at the next one
path_checks_one_by_one(image1_path, image2_path, exists1, exists2) ==
    LET ok1 == ext_ok_lowered(image1_path)
        ok2 == ext_ok_lowered(image2_path)
        x1 == <<Ev("exists", 1, <<>>, exists1)>>
        e1 == x1 \o <<Ev("ext_check", 1, <<>>, ok1)>>
        x2 == e1 \o <<Ev("exists", 2, <<>>, exists2)>>
        e2 == x2 \o <<Ev("ext_check", 2, <<>>, ok2)>>
    IN  IF ~exists1 THEN Checked("IMAGE1_NOT_FOUND", x1)
        ELSE IF ~ok1 THEN Checked("IMAGE1_FORMAT_UNSUPPORTED", e1)
        ELSE IF ~exists2 THEN Checked("IMAGE2_NOT_FOUND", x2)
        ELSE IF ~ok2 THEN Checked("IMAGE2_FORMAT_UNSUPPORTED", e2)
        ELSE Checked("", e2)

\* api_compare_images_by_path, lines 165-195: os.path.exists of both
\* paths, then the extensions of both
path_checks(image1_path, image2_path, exists1, exists2) ==
    LET ok1 == ext_ok_lowered(image1_path)
        ok2 == ext_ok_lowered(image2_path)
        x1 == <<Ev("exists", 1, <<>>, exists1)>>
        x2 == x1 \o <<Ev("exists", 2, <<>>, exists2)>>
        e1 == x2 \o <<Ev("ext_check", 1, <<>>, ok1)>>
        e2 == e1 \o <<Ev("ext_check", 2, <<>>, ok2)>>
    IN  IF ~exists1 THEN Checked("IMAGE1_NOT_FOUND", x1)
        ELSE IF ~exists2 THEN Checked("IMAGE2_NOT_FOUND", x2)
        ELSE IF ~ok1 THEN Checked("IMAGE1_FORMAT_UNSUPPORTED", e1)
        ELSE IF ~ok2 THEN Checked("IMAGE2_FORMAT_UNSUPPORTED", e2)
        ELSE Checked("", e2)

\* POST /compare_by_path; exists1, exists2 and the bytes are the file
\* system's answers
api_compare_images_by_path(image1_path, image2_path, exists1, exists2, data1, data2, vl, fault) ==
    LET c == path_checks(image1_path, image2_path, exists1, exists2)
        o1 == c.ev \o <<Ev("open", 1, <<>>, fault # FaultAt("open", 1))>>
        o2 == o1 \o <<Ev("open", 2, <<>>, fault # FaultAt("open", 2))>>
        r2 == o2 \o <<Ev("read", 1, <<>>, TRUE), Ev("read", 2, <<>>, TRUE)>>
        not_found(ev) ==
            Done(ApiResponse(MessageCode_FAIL, MessageStatus_FAIL,
                             ErrMsgOf("FILE_NOT_FOUND", "FileNotFoundError")), ev)
    IN  IF c.msg # "" THEN Done(ApiResponse(MessageCode_FAIL, c.msg, Null), c.ev)
        ELSE IF fault = FaultAt("open", 1) THEN not_found(o1)
        ELSE IF fault = FaultAt("open", 2) THEN not_found(o2)
        ELSE AfterService(compare_images_service(data1, data2, vl, fault), r2, FALSE)

\* POST /compare_by_base64
api_compare_images_by_base64(image1_base64, image2_base64, vl, fault) ==
    LET d1 == decode_base64_image(image1_base64)
        d2 == decode_base64_image(image2_base64)
        c1 == <<Ev("decode", 1, <<>>, d1.ok)>>
        c2 == c1 \o <<Ev("decode", 2, <<>>, d2.ok)>>
        v1 == c2 \o <<Ev("validate", 1, d1.data, validate_image(d1.data))>>
        v2 == v1 \o <<Ev("validate", 2, d2.data, validate_image(d2.data))>>
        decode_failed(d, ev) ==
            IF d.exc = "ValueError"
            THEN Done(ApiResponse(MessageCode_FAIL, "BASE64_DECODE_FAILED", Null), ev)
            ELSE Done(FailTraceback(d.exc), ev)
    IN  IF ~d1.ok THEN decode_failed(d1, c1)
        ELSE IF ~d2.ok THEN decode_failed(d2, c2)
        ELSE IF ~validate_image(d1.data)
        THEN Done(ApiResponse(MessageCode_FAIL, "IMAGE1_DATA_INVALID", Null), v1)
        ELSE IF ~validate_image(d2.data)
        THEN Done(ApiResponse(MessageCode_FAIL, "IMAGE2_DATA_INVALID", Null), v2)
        ELSE AfterService(compare_images_service(d1.data, d2.data, vl, fault), v2, TRUE)

\* urllib.parse.urlparse: <<scheme, netloc>>
SchemeChars == {c \in {CodeTable[i] : i \in 1..Len(CodeTable)} : IsAlnum(c)} \cup {"+", "-", "."}

urlparse(url) ==
    LET i == find(url, ":")
        has_scheme == /\ i > 1
                      /\ IsUpper(url[1]) \/ IsLower(url[1])
                      /\ \A k \in 1..(i-1) : url[k] \in SchemeChars
        scheme == IF has_scheme THEN lower(SubSeq(url, 1, i-1)) ELSE <<>>
        rest == IF has_scheme THEN SubSeq(url, i+1, Len(url)) ELSE url
        netloc == IF startswith(rest, <<"/","/">>)
                  THEN before_first(SubSeq(rest, 3, Len(rest)), "/")
                  ELSE <<>>
    IN  <<scheme, netloc>>

http == <<"h","t","t","p">>
https == <<"h","t","t","p","s">>

\* POST /compare_by_url
api_compare_images_by_url(image1_url, image2_url, vl, fault) ==
    LET p1 == urlparse(image1_url)
        p2 == urlparse(image2_url)
        valid1 == p1[1] # <<>> /\ p1[2] # <<>>
        valid2 == p2[1] # <<>> /\ p2[2] # <<>>
        u1 == <<Ev("url_check", 1, <<>>, valid1)>>
        u2 == u1 \o <<Ev("url_check", 2, <<>>, valid2)>>
        s1 == u2 \o <<Ev("scheme_check", 1, <<>>, p1[1] \in {http, https})>>
        s2 == s1 \o <<Ev("scheme_check", 2, <<>>, p2[1] \in {http, https})>>
        r == compare_images_by_url_service(image1_url, image2_url, vl, fault)
    IN  IF ~valid1
        THEN Done(ApiResponse(MessageCode_FAIL, "IMAGE1_URL_INVALID", Null), u1)
        ELSE IF ~valid2
        THEN Done(ApiResponse(MessageCode_FAIL, "IMAGE2_URL_INVALID", Null), u2)
        ELSE IF p1[1] \notin {http, https}
        THEN Done(ApiResponse(MessageCode_FAIL, "IMAGE1_URL_SCHEME", Null), s1)
        ELSE IF p2[1] \notin {http, https}
        THEN Done(ApiResponse(MessageCode_FAIL, "IMAGE2_URL_SCHEME", Null), s2)
        ELSE IF r.raised /\ r.exc = "ConnectionError"
        THEN Done(ApiResponse(MessageCode_FAIL, MessageStatus_FAIL,
                              ErrMsgOf("NETWORK_ERROR", r.exc)), s2 \o r.ev)
        ELSE AfterService(r, s2, TRUE)

-----------------------------------------------------------------------------
(* backend/utils/process.py and backend/app/service/vectorize.py *)

\* an optional value that is no text: the embedding, or None
NoVector == [some |-> FALSE, v |-> <<>>]
VectorOf(v) == [some |-> TRUE, v |-> v]

\* the vector the embedding API returns (its numbers are the API's)
EmbeddingSample == <<1, 0>>

\* answers of the embedding API: HTTP status and the shape of the output
\* ("embeddings": {"embeddings": [{"embedding": [...]}]}; "embedding":
\* {"embedding": [...]}; "empty": no output; "other": a dict without either)
EmbedSamples ==
    { [status |-> 200, output |-> "embeddings"],
      [status |-> 400, output |-> "empty"] }

get_embedding_from_response(embed) ==
    IF embed.status # 200 THEN NoVector
    ELSE IF embed.output = "empty" THEN NoVector
    ELSE IF embed.output \in {"embeddings", "embedding"} THEN VectorOf(EmbeddingSample)
    ELSE NoVector

\* the exceptions of requests.exceptions that line 78 names
RequestsExceptions == {"SSLError", "ConnectionError", "HTTPError", "RequestException"}

\* the exception a failing call raises: the one the environment names, a
\* ConnectionError when it names none
ExcOf(fault) == IF "exc" \in DOMAIN fault THEN fault.exc ELSE "ConnectionError"

\* except clauses that raise the exception they caught
except_clauses_reraising(exc) == exc

\* lines 76-82, the except clauses of vectorize_image for an exception
\* raised before resp_dict is bound: the clause of line 78 logs resp_dict
\* and so raises UnboundLocalError; the two others raise what they caught
except_clauses(exc) ==
    IF exc = "ValueError" THEN exc
    ELSE IF exc \in RequestsExceptions THEN "UnboundLocalError"
    ELSE exc

\* vectorize_image of the backend: the value returned is the "output" of
\* resp_dict.  With a provider other than "dashscope" resp is never bound;
\* when the call raises, the except clause reads resp_dict, which is not
\* bound either.  Line 63 builds a ValueError and does not raise it.
vectorize_image(file_data, provider, embed, fault, i) ==
    LET failing == fault.op = "embed" /\ fault.i = i IN
    IF ~validate_image(file_data)
    THEN Raised(except_clauses("ValueError"), <<Ev("validate", i, file_data, FALSE)>>)
    ELSE IF provider # "dashscope"
    THEN Raised(except_clauses("UnboundLocalError"), <<Ev("validate", i, file_data, TRUE)>>)
    ELSE
      LET ev == <<Ev("validate", i, file_data, TRUE),
                  Ev("embed_call", i, file_data, ~failing)>>
      IN  IF failing THEN Raised(except_clauses(ExcOf(fault)), ev)
          ELSE Returned(get_embedding_from_response(embed), ev)

-----------------------------------------------------------------------------
(* backend/storage/milvus_client.py and backend/storage/vdb/milvusdb.py *)

\* r["distance"] > 0.8, distances in hundredths
DistanceThreshold == 80

DistanceSamples == {70, 80, 90}

Min(a, b) == IF a <= b THEN a ELSE b

\* MilvusClient.search(data=[data], limit=top_k): the service answers one
\* list of hits for the one query vector, the first `limit` of its ranking
client_search(ranking, limit) == <<SubSeq(ranking, 1, Min(limit, Len(ranking)))>>

\* a filter that keeps a hit at the threshold
FilterHits_at_least(result) == SelectSeq(result, LAMBDA r : r.distance >= DistanceThreshold)

\* lines 136-140: the hits of one list whose distance is above the threshold
FilterHits(result) == SelectSeq(result, LAMBDA r : r.distance > DistanceThreshold)

\* storage/milvus_client.py, MilvusDB.search_data: a list with one list of hits
search_data(ranking, top_k, cosine) ==
    LET results == client_search(ranking, top_k)
    IN  [k \in 1..Len(results) |-> FilterHits(results[k])]

\* storage/vdb/milvusdb.py, MilvusDB.search_data: the list of hits itself
vdb_search_data(ranking, top_k, cosine) ==
    LET results == client_search(ranking, top_k)
    IN  ([k \in 1..Len(results) |-> FilterHits(results[k])])[1]

\* the ranking Milvus computes for a query: every row with the distance the
\* service finds for it, by descending distance (rows before later rows
\* when the distances are equal)
RECURSIVE InsertHit(_, _)
InsertHit(sorted, h) ==
    IF sorted = <<>> THEN <<h>>
    ELSE IF h.distance > Head(sorted).distance THEN <<h>> \o sorted
    ELSE <<Head(sorted)>> \o InsertHit(Tail(sorted), h)

RECURSIVE RankHits(_)
RankHits(hits) ==
    IF hits = <<>> THEN <<>>
    ELSE InsertHit(RankHits(SubSeq(hits, 1, Len(hits) - 1)), hits[Len(hits)])

milvus_ranking(table, dist) ==
    RankHits([k \in 1..Len(table) |->
                [id |-> k, distance |-> dist[k], entity |-> table[k]]])

\* an insert that replaces what the collection holds
insert_data_replacing(table, row, fault, i) ==
    IF fault = FaultAt("insert", i) \/ ~row.vector.some
    THEN [raised |-> TRUE, exc |-> "MilvusException", val |-> Null,
          ev |-> <<Ev("insert", i, <<>>, FALSE)>>, rows |-> table]
    ELSE [raised |-> FALSE, exc |-> "", val |-> [tag |-> "insert", insert_count |-> 1],
          ev |-> <<Ev("insert", i, <<>>, TRUE)>>, rows |-> <<row>>]

\* MilvusDB.insert_data: one row appended; the service refuses a row
\* without a vector
insert_data(table, row, fault, i) ==
    IF fault = FaultAt("insert", i) \/ ~row.vector.some
    THEN [raised |-> TRUE, exc |-> "MilvusException", val |-> Null,
          ev |-> <<Ev("insert", i, <<>>, FALSE)>>, rows |-> table]
    ELSE [raised |-> FALSE, exc |-> "", val |-> [tag |-> "insert", insert_count |-> 1],
          ev |-> <<Ev("insert", i, <<>>, TRUE)>>, rows |-> Append(table, row)]

-----------------------------------------------------------------------------
(* backend/app/service/imginsert.py and imgsearch.py *)

\* OneImageUploadDTO keeps file_name, file_data, file_type and file_class;
\* the row is built from these and from the embedding
insert_image_service(dto, table, provider, embed, fault, i) ==
    LET vector_response == vectorize_image(dto.file_data, provider, embed, fault, i)
    IN  IF vector_response.raised
        THEN [raised |-> TRUE, exc |-> vector_response.exc, val |-> Null,
              ev |-> vector_response.ev, rows |-> table]
        ELSE
          LET data_raw == [class_id |-> compute_mdhash_id(dto.file_class),
                           class_name |-> dto.file_class,
                           file_path |-> dto.file_name,
                           file_content |-> <<>>,
                           vector |-> vector_response.val]
              ins == insert_data(table, data_raw, fault, i)
          IN  [ins EXCEPT !.ev = vector_response.ev \o ins.ev]

\* the search always asks for top_k = 5 and cosine = 0.25
ServiceTopK == 5
ServiceCosine == 25

search_image_service(dto, table, dist, provider, embed, fault, i) ==
    LET vector_response == vectorize_image(dto.file_data, provider, embed, fault, i)
    IN  IF vector_response.raised
        THEN Raised(vector_response.exc, vector_response.ev)
        ELSE IF fault = FaultAt("search", i) \/ ~vector_response.val.some
        THEN Raised("MilvusException",
                    vector_response.ev \o <<Ev("search", i, <<>>, FALSE)>>)
        ELSE Returned([tag |-> "hits",
                       v |-> search_data(milvus_ranking(table, dist),
                                         ServiceTopK, ServiceCosine)],
                      vector_response.ev \o <<Ev("search", i, <<>>, TRUE)>>)

-----------------------------------------------------------------------------
(* backend/storage/minio_client.py *)

\* a get_minio_client that builds a client on every call
get_minio_client_constructing_anew(client, fault) ==
    IF fault.op = "minio_init"
    THEN [raised |-> TRUE, exc |-> "S3Error", client |-> "unset",
          ev |-> <<Ev("minio_init", 0, <<>>, FALSE)>>]
    ELSE [raised |-> FALSE, exc |-> "", client |-> "set",
          ev |-> <<Ev("minio_init", 0, <<>>, TRUE)>>]

\* get_minio_client: the client is built on the first call and kept
get_minio_client(client, fault) ==
    IF client = "unset"
    THEN IF fault.op = "minio_init"
         THEN [raised |-> TRUE, exc |-> "S3Error", client |-> "unset",
               ev |-> <<Ev("minio_init", 0, <<>>, FALSE)>>]
         ELSE [raised |-> FALSE, exc |-> "", client |-> "set",
               ev |-> <<Ev("minio_init", 0, <<>>, TRUE)>>]
    ELSE [raised |-> FALSE, exc |-> "", client |-> client, ev |-> <<>>]

url_prefix == <<"h","t","t","p",":","/","/","m","/","b","/">>

\* MinIOClient.upload_file: the object is stored and its URL returned
upload_file(bucket, object_name, fault, i) ==
    IF fault = FaultAt("put", i)
    THEN [raised |-> TRUE, exc |-> "S3Error", url |-> <<>>, objects |-> bucket,
          ev |-> <<Ev("put_object", i, object_name, FALSE)>>]
    ELSE [raised |-> FALSE, exc |-> "", url |-> url_prefix \o object_name,
          objects |-> bucket \cup {object_name},
          ev |-> <<Ev("put_object", i, object_name, TRUE)>>]

-----------------------------------------------------------------------------
(* backend/app/api/upload.py, search.py and minio_upload.py *)

\* mimetypes.guess_type(file_name)[0]: None for a name whose suffix the
\* table of types does not know (the lookup lowers the suffix)
dot_txt == <<".","t","x","t">>
guess_type(file_name) ==
    IF lower(splitext(file_name)[2]) \in ALLOWED_EXTENSIONS \cup {dot_txt}
    THEN Some(<<"t">>)
    ELSE None

\* the state a handler's loop carries from one file to the next
LoopState(table, bucket, ev, file_status) ==
    [rows |-> table, objects |-> bucket, ev |-> ev, status |-> file_status,
     raised |-> FALSE, exc |-> ""]
LoopRaise(st, exc, ev) == [st EXCEPT !.raised = TRUE, !.exc = exc, !.ev = st.ev \o ev]

\* what the environment supplies to one request
Env(provider, embed, fault, date_folder, file_uuid, u16, dist) ==
    [provider |-> provider, embed |-> embed, fault |-> fault,
     date_folder |-> date_folder, file_uuid |-> file_uuid, u16 |-> u16, dist |-> dist]

\* the end of the four store handlers: the success envelope, or the except
\* clause with the traceback
Finish(st, client, data) ==
    [resp |-> IF st.raised THEN FailTraceback(st.exc)
              ELSE ApiResponse(MessageCode_SUCCESS, MessageStatus_SUCCESS, data),
     ev |-> st.ev, rows |-> st.rows, objects |-> st.objects, minio_client |-> client]

\* POST /local_upload (lines 37-75): everything is inside the try
upload_image(files, table, bucket, client, exists, e) ==
    LET f == e.fault
        m == <<Ev("makedirs", 1, files.file_class, f # FaultAt("makedirs", 1))>>
        o == m \o <<Ev("open", 1, <<>>, exists /\ f # FaultAt("open", 1))>>
        w == o \o <<Ev("write", 1, <<>>, f # FaultAt("write", 1))>>
        file_type == guess_type(files.file_name)
        dto == [file_name |-> files.file_name, file_data |-> files.bytes,
                file_type |-> file_type, file_class |-> files.file_class]
        ins == insert_image_service(dto, table, e.provider, e.embed, f, 1)
        st == LoopState(table, bucket, <<>>, <<>>)
    IN  IF f = FaultAt("makedirs", 1) THEN Finish(LoopRaise(st, "OSError", m), client, Null)
        ELSE IF ~exists \/ f = FaultAt("open", 1)
        THEN Finish(LoopRaise(st, "FileNotFoundError", o), client, Null)
        ELSE IF f = FaultAt("write", 1) THEN Finish(LoopRaise(st, "OSError", w), client, Null)
        ELSE IF ~file_type.some THEN Finish(LoopRaise(st, "ValidationError", w), client, Null)
        ELSE IF ins.raised THEN Finish(LoopRaise(st, ins.exc, w \o ins.ev), client, Null)
        ELSE Finish(LoopState(ins.rows, bucket, w \o ins.ev, <<>>), client, ResultOf(ins.val))

\* a turn of the loop of /api_upload_image that lets the exception of the
\* MinIO upload leave
upload_one_raising_on_put(uploaded_file, file_category, file_description, k, st, e) ==
    LET f == e.fault
        ok == ext_ok_exact(uploaded_file.filename)
        m == <<Ev("makedirs", k, file_category, f # FaultAt("makedirs", k))>>
        x == m \o <<Ev("ext_check", k, <<>>, ok)>>
        r == x \o <<Ev("read", k, <<>>, f # FaultAt("read", k))>>
        object_name == upload_object_name(file_category, uploaded_file.filename,
                                          e.date_folder, e.file_uuid, e.u16)
        up == upload_file(st.objects, object_name, f, k)
        w == r \o up.ev \o <<Ev("write", k, <<>>, f # FaultAt("write", k))>>
        dto == [file_name |-> uploaded_file.filename, file_data |-> uploaded_file.data,
                file_type |-> uploaded_file.content_type, file_class |-> file_category]
        ins == insert_image_service(dto, st.rows, e.provider, e.embed, f, k)
        put == [st EXCEPT !.objects = up.objects]
    IN  IF f = FaultAt("makedirs", k) THEN LoopRaise(st, "OSError", m)
        ELSE IF ~ok
        THEN [st EXCEPT !.ev = st.ev \o x,
                        !.status = Append(st.status,
                            [filename |-> uploaded_file.filename, filestatus |-> "fail"])]
        ELSE IF f = FaultAt("read", k) THEN LoopRaise(st, "OSError", r)
        ELSE IF up.raised THEN LoopRaise(st, up.exc, r \o up.ev)
        ELSE IF f = FaultAt("write", k) THEN LoopRaise(put, "OSError", w)
        ELSE IF ins.raised THEN LoopRaise(put, ins.exc, w \o ins.ev)
        ELSE [put EXCEPT !.rows = ins.rows,
                         !.ev = st.ev \o w \o ins.ev,
                         !.status = Append(st.status,
                            [filename |-> uploaded_file.filename, file_url |-> up.url,
                             vectorize_data |-> ins.val])]

\* one turn of the loop of /api_upload_image (lines 96-152)
upload_one(uploaded_file, file_category, file_description, k, st, e) ==
    LET f == e.fault
        ok == ext_ok_exact(uploaded_file.filename)
        m == <<Ev("makedirs", k, file_category, f # FaultAt("makedirs", k))>>
        x == m \o <<Ev("ext_check", k, <<>>, ok)>>
        r == x \o <<Ev("read", k, <<>>, f # FaultAt("read", k))>>
        object_name == upload_object_name(file_category, uploaded_file.filename,
                                          e.date_folder, e.file_uuid, e.u16)
        up == upload_file(st.objects, object_name, f, k)
        file_url == IF up.raised THEN <<>> ELSE up.url
        w == r \o up.ev \o <<Ev("write", k, <<>>, f # FaultAt("write", k))>>
        dto == [file_name |-> uploaded_file.filename, file_data |-> uploaded_file.data,
                file_type |-> uploaded_file.content_type, file_class |-> file_category]
        ins == insert_image_service(dto, st.rows, e.provider, e.embed, f, k)
        put == [st EXCEPT !.objects = up.objects]
    IN  IF f = FaultAt("makedirs", k) THEN LoopRaise(st, "OSError", m)
        ELSE IF ~ok
        THEN [st EXCEPT !.ev = st.ev \o x,
                        !.status = Append(st.status,
                            [filename |-> uploaded_file.filename, filestatus |-> "fail"])]
        ELSE IF f = FaultAt("read", k) THEN LoopRaise(st, "OSError", r)
        ELSE IF f = FaultAt("write", k) THEN LoopRaise(put, "OSError", w)
        ELSE IF ins.raised THEN LoopRaise(put, ins.exc, w \o ins.ev)
        ELSE [put EXCEPT !.rows = ins.rows,
                         !.ev = st.ev \o w \o ins.ev,
                         !.status = Append(st.status,
                            [filename |-> uploaded_file.filename, file_url |-> file_url,
                             vectorize_data |-> ins.val])]

\* zip(files, categories, descriptions): as many turns as the shortest list
RECURSIVE upload_loop(_, _, _, _, _, _, _)
upload_loop(files, categories, descriptions, k, n, st, e) ==
    IF k > n \/ st.raised THEN st
    ELSE upload_loop(files, categories, descriptions, k + 1, n,
                     upload_one(files[k], categories[k], descriptions[k], k, st, e), e)

\* an /api_upload_image that undoes the inserts and the uploads of a
\* request when one of its files fails
api_upload_image_rolling_back(files, categories, descriptions, table, bucket, client, e) ==
    LET g == get_minio_client(client, e.fault)
        st0 == LoopState(table, bucket, g.ev, <<>>)
        n == Min(Len(files), Min(Len(categories.v), Len(descriptions.v)))
    IN  IF g.raised THEN Finish(LoopRaise(st0, g.exc, <<>>), g.client, Null)
        ELSE IF ~categories.some \/ ~descriptions.some
        THEN Finish(LoopRaise(st0, "TypeError", <<>>), g.client, Null)
        ELSE LET st == upload_loop(files, categories.v, descriptions.v, 1, n, st0, e)
             IN  IF st.raised
                 THEN Finish([st EXCEPT !.rows = table, !.objects = bucket], g.client, Null)
                 ELSE Finish(st, g.client, ResultOf(st.status))

\* POST /api_upload_image (lines 91-164); categories and descriptions are
\* None when the form does not carry them, and zip raises TypeError then
api_upload_image(files, categories, descriptions, table, bucket, client, e) ==
    LET g == get_minio_client(client, e.fault)
        st0 == LoopState(table, bucket, g.ev, <<>>)
        n == Min(Len(files), Min(Len(categories.v), Len(descriptions.v)))
    IN  IF g.raised THEN Finish(LoopRaise(st0, g.exc, <<>>), g.client, Null)
        ELSE IF ~categories.some \/ ~descriptions.some
        THEN Finish(LoopRaise(st0, "TypeError", <<>>), g.client, Null)
        ELSE LET st == upload_loop(files, categories.v, descriptions.v, 1, n, st0, e)
             IN  Finish(st, g.client, ResultOf(st.status))

\* POST /search: lines 36-38 run before the try
search_image(files, table, bucket, client, exists, e) ==
    LET f == e.fault
        m == <<Ev("makedirs", 0, <<>>, f # FaultAt("makedirs", 0))>>
        o == m \o <<Ev("open", 1, <<>>, exists /\ f # FaultAt("open", 1))>>
        w == o \o <<Ev("write", 1, <<>>, f # FaultAt("write", 1))>>
        file_type == guess_type(files.file_name)
        dto == [file_name |-> files.file_name, file_data |-> files.bytes,
                file_type |-> file_type, top_k |-> files.top_k, cosine |-> files.cosine]
        s == search_image_service(dto, table, e.dist, e.provider, e.embed, f, 1)
        st == LoopState(table, bucket, <<>>, <<>>)
    IN  IF f = FaultAt("makedirs", 0)
        THEN [Finish(st, client, Null) EXCEPT !.resp = Unhandled("OSError"), !.ev = m]
        ELSE IF ~exists \/ f = FaultAt("open", 1)
        THEN Finish(LoopRaise(st, "FileNotFoundError", o), client, Null)
        ELSE IF f = FaultAt("write", 1) THEN Finish(LoopRaise(st, "OSError", w), client, Null)
        ELSE IF ~file_type.some THEN Finish(LoopRaise(st, "ValidationError", w), client, Null)
        ELSE IF s.raised THEN Finish(LoopRaise(st, s.exc, w \o s.ev), client, Null)
        ELSE Finish(LoopState(table, bucket, w \o s.ev, <<>>), client, ResultOf(s.val))

\* one turn of the loop of /api_search_image (lines 93-129)
search_one(uploaded_file, k, st, e) ==
    LET f == e.fault
        ok == ext_ok_exact(uploaded_file.filename)
        x == <<Ev("ext_check", k, <<>>, ok)>>
        r == x \o <<Ev("read", k, <<>>, f # FaultAt("read", k))>>
        w == r \o <<Ev("write", k, <<>>, f # FaultAt("write", k))>>
        dto == [file_name |-> uploaded_file.filename, file_data |-> uploaded_file.data,
                file_type |-> uploaded_file.content_type,
                top_k |-> ServiceTopK, cosine |-> ServiceCosine]
        s == search_image_service(dto, st.rows, e.dist, e.provider, e.embed, f, k)
    IN  IF ~ok
        THEN [st EXCEPT !.ev = st.ev \o x,
                        !.status = Append(st.status,
                            [filename |-> uploaded_file.filename, filestatus |-> "fail",
                             fileresult |-> [tag |-> "hits", v |-> <<>>]])]
        ELSE IF f = FaultAt("read", k) THEN LoopRaise(st, "OSError", r)
        ELSE IF f = FaultAt("write", k) THEN LoopRaise(st, "OSError", w)
        ELSE IF s.raised THEN LoopRaise(st, s.exc, w \o s.ev)
        ELSE [st EXCEPT !.ev = st.ev \o w \o s.ev,
                        !.status = Append(st.status,
                            [filename |-> uploaded_file.filename, filestatus |-> "success",
                             fileresult |-> s.val])]

RECURSIVE search_loop(_, _, _, _)
search_loop(files, k, st, e) ==
    IF k > Len(files) \/ st.raised THEN st
    ELSE search_loop(files, k + 1, search_one(files[k], k, st, e), e)

\* POST /api_search_image: lines 88-90 run before the try
api_search_image(files, table, bucket, client, e) ==
    LET m == <<Ev("makedirs", 0, <<>>, e.fault # FaultAt("makedirs", 0))>>
        st0 == LoopState(table, bucket, m, <<>>)
        st == search_loop(files, 1, st0, e)
    IN  IF e.fault = FaultAt("makedirs", 0)
        THEN [Finish(st0, client, Null) EXCEPT !.resp = Unhandled("OSError")]
        ELSE Finish(st, client, ResultOf(st.status))

\* one turn of the loop of /api_upload_to_minio (lines 49-111): the turn has
\* a try of its own
minio_one(uploaded_file, folder, k, st, e) ==
    LET f == e.fault
        ok == ext_ok_lowered(uploaded_file.filename)
        x == <<Ev("ext_check", k, <<>>, ok)>>
        r == x \o <<Ev("read", k, <<>>, f # FaultAt("read", k))>>
        object_name == minio_object_name(folder, uploaded_file.filename,
                                         e.date_folder, e.file_uuid, e.u16)
        up == upload_file(st.objects, object_name, f, k)
        failed(ev, error) ==
            [st EXCEPT !.ev = st.ev \o ev,
                       !.status = Append(st.status,
                           [filename |-> uploaded_file.filename, status |-> "fail",
                            error |-> error, url |-> None])]
    IN  IF ~ok THEN failed(x, "FORMAT_UNSUPPORTED")
        ELSE IF f = FaultAt("read", k) THEN failed(r, "OSError")
        ELSE IF up.raised THEN failed(r \o up.ev, up.exc)
        ELSE [st EXCEPT !.objects = up.objects,
                        !.ev = st.ev \o r \o up.ev,
                        !.status = Append(st.status,
                           [filename |-> uploaded_file.filename, status |-> "success",
                            object_name |-> object_name, url |-> Some(up.url),
                            size |-> Len(uploaded_file.data)])]

RECURSIVE minio_loop(_, _, _, _, _)
minio_loop(files, folder, k, st, e) ==
    IF k > Len(files) THEN st
    ELSE minio_loop(files, folder, k + 1, minio_one(files[k], folder, k, st, e), e)

\* an /api_upload_to_minio that answers with the traceback when one of the
\* files failed
api_upload_to_minio_failing_whole(files, folder, table, bucket, client, e) ==
    LET g == get_minio_client(client, e.fault)
        st0 == LoopState(table, bucket, g.ev, <<>>)
        st == minio_loop(files, folder, 1, st0, e)
    IN  IF g.raised THEN Finish(LoopRaise(st0, g.exc, <<>>), g.client, Null)
        ELSE IF \E k \in 1..Len(st.status) : st.status[k].status = "fail"
        THEN Finish(LoopRaise(st, "Exception", <<>>), g.client, Null)
        ELSE Finish(st, g.client, ResultOf(st.status))

\* POST /api_upload_to_minio (lines 43-128)
api_upload_to_minio(files, folder, table, bucket, client, e) ==
    LET g == get_minio_client(client, e.fault)
        st0 == LoopState(table, bucket, g.ev, <<>>)
        st == minio_loop(files, folder, 1, st0, e)
    IN  IF g.raised THEN Finish(LoopRaise(st0, g.exc, <<>>), g.client, Null)
        ELSE Finish(st, g.client, ResultOf(st.status))

-----------------------------------------------------------------------------
(* src/main.py and src/embedding_service.py: the stand-alone application *)

\* GET /health
health == Done(JSONResponse({"status"}), <<>>)

image_slash == <<"i","m","a","g","e","/">>
text_plain == <<"t","e","x","t","/","p","l","a","i","n">>

\* POST /vectorize: main.py, lines 52-83, with vectorize_image of
\* embedding_service.py, lines 193-242
vectorize_image_endpoint(file, embed, fault) ==
    LET r == <<Ev("read", 1, <<>>, fault # FaultAt("read", 1))>>
        v == r \o <<Ev("validate", 1, file.data, validate_image(file.data))>>
        c == v \o <<Ev("embed_call", 1, file.data, fault # FaultAt("embed", 1))>>
        embedding == get_embedding_from_response(embed)
    IN  IF ~file.content_type.some \/ ~startswith(file.content_type.v, image_slash)
        THEN Done(HTTPException(400), <<>>)
        ELSE IF fault = FaultAt("read", 1) THEN Done(HTTPException(502), r)
        ELSE IF ~validate_image(file.data) THEN Done(HTTPException(400), v)
        ELSE IF fault = FaultAt("embed", 1) THEN Done(HTTPException(502), c)
        ELSE IF embed.status # 200 THEN Done(HTTPException(502), c)
        ELSE IF ~embedding.some THEN Done(JSONResponse({"output", "success"}), c)
        ELSE Done(JSONResponse({"embedding", "dim", "success"}), c)

-----------------------------------------------------------------------------
(* What the clients send *)

Typed(filename, data, content_type) ==
    [filename |-> filename, data |-> data, content_type |-> content_type]

\* uploaded files: a name and the bytes
FileSamples ==
    { Typed(<<"a",".","j","p","g">>, ValidBytes, Some(image_jpeg)),
      Typed(<<"a",".","J","P","G">>, ValidBytes, Some(image_jpeg)),
      Typed(<<"c",".","t","x","t">>, ValidBytes, Some(text_plain)),
      Typed(<<"a",".","j","p","g">>, InvalidBytes, Some(image_jpeg)) }

OkFile == Typed(<<"a",".","j","p","g">>, ValidBytes, Some(image_jpeg))

\* the files of one request: up to MaxFiles of them, one of which may be
\* any of the samples while the others are good images
FileLists ==
    UNION { { [k \in 1..n |-> IF k = j THEN f ELSE OkFile] :
                j \in 1..n, f \in FileSamples } : n \in 1..MaxFiles }

\* categories[k] and descriptions[k] of a form with n of them
CategoryOf(k) == <<"c">>
DescriptionOf(k) == <<"d">>
CategoryLists == {None} \cup {Some([k \in 1..n |-> CategoryOf(k)]) : n \in 0..MaxFiles}
DescriptionLists == {None} \cup {Some([k \in 1..n |-> DescriptionOf(k)]) : n \in 0..MaxFiles}
\* the two lists of a form: one of them has an entry for every file that
\* may come
FormLists ==
    { x \in CategoryLists \X DescriptionLists :
        \/ x[1].some /\ Len(x[1].v) = MaxFiles
        \/ x[2].some /\ Len(x[2].v) = MaxFiles }

PathSamples ==
    { <<"a",".","j","p","g">>, <<"a",".","J","P","G">>, <<"c",".","t","x","t">> }

Base64Samples ==
    { <<"Q","k","0","A">>,
      data_prefix \o image_png \o <<";","b","a","s","e","6","4",",","Q","k","0","A">>,
      <<"Q","k","0">>,
      <<"A","A","A","A">>,
      data_prefix \o image_png \o <<";","b","a","s","e","6","4">>,
      <<"CJK">> }

UrlSamples ==
    { <<"h","t","t","p",":","/","/","h","/","a">>,
      <<"H","T","T","P","S",":","/","/","h","/","b">>,
      <<"f","t","p",":","/","/","h","/","a">>,
      data_prefix \o image_png \o <<";","b","a","s","e","6","4",",","Q","k","0","A">>,
      <<"h","/","a">> }

\* the bodies of /local_upload and /search
UploadRequests ==
    { [file_name |-> n, file_data |-> <<"p">>, file_class |-> <<"t">>, bytes |-> b] :
        n \in {<<"a",".","j","p","g">>, <<"n","o","e","x","t">>}, b \in ByteSamples }

SearchRequests ==
    { [file_name |-> n, file_data |-> <<"p">>, top_k |-> k, cosine |-> 25, bytes |-> b] :
        n \in {<<"a",".","j","p","g">>, <<"n","o","e","x","t">>},
        k \in {1, ServiceTopK}, b \in ByteSamples }

ProviderSamples == {"dashscope", "local"}

\* the calls of a request on n files that may fail
Faults(ops, n) == {NoFault} \cup {FaultAt(op, i) : op \in ops, i \in 1..n}

EmbedOk == [status |-> 200, output |-> "embeddings"]

\* the environments of a request of the store handlers: the provider set
\* up, the embedding API's answer, the failing call, the date and the
\* random names, and the distances Milvus finds for the rows.  One thing
\* at most departs from the usual in one request.
Envs(faults, dists) ==
    { Env(x[1], x[2], x[3], CHOOSE d \in DateSamples : TRUE,
          CHOOSE u \in Uuid8Samples : TRUE, CHOOSE u \in Uuid16Samples : TRUE, dist) :
        x \in {<<"dashscope", EmbedOk, f>> : f \in faults}
               \cup {<<"dashscope", em, NoFault>> : em \in EmbedSamples}
               \cup {<<p, EmbedOk, NoFault>> : p \in ProviderSamples},
        dist \in dists }

\* the distances of a search: one of the samples for every row
Distances(table) == [1..Len(table) -> DistanceSamples \ {DistanceThreshold}]
\* a request that does not search
NoDistances == {<<>>}

VlOk == [status |-> 200, kind |-> "json",
         result |-> [is_same |-> TRUE, confidence |-> 90, reason |-> "r"]]

\* the environments of a compare request: the model's answer and the
\* failing call
VlEnvs(faults) ==
    {<<vl, NoFault>> : vl \in VlSamples} \cup {<<VlOk, f>> : f \in faults}

-----------------------------------------------------------------------------
(* The service: requests are handled one after the other; a handler runs   *)
(* from the request to its response, and Deliver hands the response over.  *)

Init ==
    /\ rows = <<>>
    /\ objects = {}
    /\ minio_client = "unset"
    /\ pc = "idle"
    /\ req = NoReq
    /\ resp = NoResp
    /\ trace = <<>>
    /\ out = NoOut

\* a handler that leaves the collection and the bucket alone
Respond(request, done) ==
    /\ req' = request
    /\ resp' = done.resp
    /\ trace' = done.ev
    /\ pc' = "responded"
    /\ UNCHANGED <<rows, objects, minio_client, out>>

\* a handler of the store: the rows and objects it leaves are the new state
Store(request, fin) ==
    /\ Len(fin.rows) <= MaxRows
    /\ req' = request
    /\ resp' = fin.resp
    /\ trace' = fin.ev
    /\ rows' = fin.rows
    /\ objects' = fin.objects
    /\ minio_client' = fin.minio_client
    /\ pc' = "responded"
    /\ UNCHANGED out

Compare ==
    /\ pc = "idle"
    /\ \E image1 \in FileSamples, image2 \in FileSamples,
          x \in VlEnvs({FaultAt("vl", 0), FaultAt("read", 1), FaultAt("read", 2)}) :
         Respond([ep |-> "/compare", image1 |-> image1, image2 |-> image2],
                 api_compare_images(image1, image2, x[1], x[2]))

CompareByPath ==
    /\ pc = "idle"
    /\ \E image1_path \in PathSamples, image2_path \in PathSamples,
          exists1 \in BOOLEAN, exists2 \in BOOLEAN,
          data1 \in ByteSamples, data2 \in ByteSamples,
          x \in VlEnvs({FaultAt("vl", 0), FaultAt("open", 1), FaultAt("open", 2)}) :
         Respond([ep |-> "/compare_by_path", image1_path |-> image1_path,
                  image2_path |-> image2_path],
                 api_compare_images_by_path(image1_path, image2_path, exists1, exists2,
                                            data1, data2, x[1], x[2]))

CompareByBase64 ==
    /\ pc = "idle"
    /\ \E image1_base64 \in Base64Samples, image2_base64 \in Base64Samples,
          x \in VlEnvs({FaultAt("vl", 0)}) :
         Respond([ep |-> "/compare_by_base64", image1_base64 |-> image1_base64,
                  image2_base64 |-> image2_base64],
                 api_compare_images_by_base64(image1_base64, image2_base64, x[1], x[2]))

CompareByUrl ==
    /\ pc = "idle"
    /\ \E image1_url \in UrlSamples, image2_url \in UrlSamples,
          x \in VlEnvs({FaultAt("vl", 0)}) :
         Respond([ep |-> "/compare_by_url", image1_url |-> image1_url,
                  image2_url |-> image2_url],
                 api_compare_images_by_url(image1_url, image2_url, x[1], x[2]))

LocalUpload ==
    /\ pc = "idle"
    /\ \E files \in UploadRequests, exists \in BOOLEAN,
          e \in Envs(Faults({"makedirs", "open", "write", "embed", "insert"}, 1),
                      NoDistances) :
         Store([ep |-> "/local_upload", files |-> files],
               upload_image(files, rows, objects, minio_client, exists, e))

ApiUploadImage ==
    /\ pc = "idle"
    /\ \E files \in FileLists, form \in FormLists :
       \E e \in Envs({FaultAt("minio_init", 0)} \cup
                     Faults({"makedirs", "read", "put", "write", "embed", "insert"},
                            Len(files)), NoDistances) :
         Store([ep |-> "/api_upload_image", files |-> files,
                categories |-> form[1], descriptions |-> form[2]],
               api_upload_image(files, form[1], form[2], rows, objects, minio_client, e))

Search ==
    /\ pc = "idle"
    /\ \E files \in SearchRequests, exists \in BOOLEAN,
          e \in Envs({FaultAt("makedirs", 0)} \cup
                     Faults({"open", "write", "embed", "search"}, 1), Distances(rows)) :
         Store([ep |-> "/search", files |-> files],
               search_image(files, rows, objects, minio_client, exists, e))

ApiSearchImage ==
    /\ pc = "idle"
    /\ \E files \in FileLists :
       \E e \in Envs({FaultAt("makedirs", 0)} \cup
                     Faults({"read", "write", "embed", "search"}, Len(files)),
                     Distances(rows)) :
         Store([ep |-> "/api_search_image", files |-> files],
               api_search_image(files, rows, objects, minio_client, e))

ApiUploadToMinio ==
    /\ pc = "idle"
    /\ \E files \in FileLists, folder \in {None, Some(<<"c">>)} :
       \E e \in Envs({FaultAt("minio_init", 0)} \cup Faults({"read", "put"}, Len(files)),
                     NoDistances) :
         Store([ep |-> "/api_upload_to_minio", files |-> files, folder |-> folder],
               api_upload_to_minio(files, folder, rows, objects, minio_client, e))

Vectorize ==
    /\ pc = "idle"
    /\ \E file \in FileSamples \cup {Typed(<<"a",".","j","p","g">>, ValidBytes, None)},
          embed \in EmbedSamples,
          fault \in {NoFault, FaultAt("read", 1), FaultAt("embed", 1)} :
         Respond([ep |-> "/vectorize", file |-> file],
                 vectorize_image_endpoint(file, embed, fault))

Health ==
    /\ pc = "idle"
    /\ Respond([ep |-> "/health"], health)

\* the response leaves; the next request may come
Deliver ==
    /\ pc = "responded"
    /\ pc' = "idle"
    /\ req' = NoReq
    /\ resp' = NoResp
    /\ trace' = <<>>
    /\ UNCHANGED <<rows, objects, minio_client, out>>

Next ==
    \/ Compare
    \/ CompareByPath
    \/ CompareByBase64
    \/ CompareByUrl
    \/ Search
    \/ ApiSearchImage
    \/ LocalUpload
    \/ ApiUploadImage
    \/ ApiUploadToMinio
    \/ Vectorize
    \/ Health
    \/ Deliver

Spec == Init /\ [][Next]_vars

-----------------------------------------------------------------------------
(* Specification of search_data: the ranking Milvus holds for the query,   *)
(* top_k and cosine are drawn at the start; each action is one of the two  *)
(* search_data of the repository.                                          *)

\* hits in the ranking of a query
MaxHits == 3
\* the largest top_k asked for
MaxTopK == 3

CosineSamples == {0, 25, 100}

HitOf(k, d) == [id |-> k, distance |-> d, entity |-> [class_name |-> <<"c">>]]

RankingSamples ==
    UNION { { [k \in 1..n |-> HitOf(k, d[k])] : d \in [1..n -> DistanceSamples] } :
            n \in 0..MaxHits }

InitSearch ==
    /\ rows = <<>>
    /\ objects = {}
    /\ minio_client = "unset"
    /\ pc = "idle"
    /\ req \in [ep : {"search_data"}, ranking : RankingSamples,
                top_k : 1..MaxTopK, cosine : CosineSamples]
    /\ resp = NoResp
    /\ trace = <<>>
    /\ out = NoOut

\* storage/milvus_client.py
SearchData ==
    /\ pc = "idle"
    /\ out' = [kind |-> "search_data",
               hits |-> search_data(req.ranking, req.top_k, req.cosine)[1]]
    /\ pc' = "searched"
    /\ UNCHANGED <<rows, objects, minio_client, req, resp, trace>>

\* storage/vdb/milvusdb.py
VdbSearchData ==
    /\ pc = "idle"
    /\ out' = [kind |-> "vdb_search_data",
               hits |-> vdb_search_data(req.ranking, req.top_k, req.cosine)]
    /\ pc' = "searched"
    /\ UNCHANGED <<rows, objects, minio_client, req, resp, trace>>

NextSearch == SearchData \/ VdbSearchData

SpecSearch == InitSearch /\ [][NextSearch]_vars

\* the first n entries of a sequence
Take(s, n) == SubSeq(s, 1, IF n < Len(s) THEN n ELSE Len(s))

\* the hits of s whose distance is above 0.8, order kept
RECURSIVE Above(_)
Above(s) ==
    IF s = <<>> THEN <<>>
    ELSE IF Head(s).distance > 80 THEN <<Head(s)>> \o Above(Tail(s))
    ELSE Above(Tail(s))

\* C7: search_data returns exactly the hits the database answered for the
\* one query vector (the first top_k of its ranking) whose distance is
\* strictly above 0.8, in the database's order, at most top_k of them, and
\* the same hits whatever the cosine argument is.
C7_SearchDataFiltersAboveThreshold ==
    out.kind \in {"search_data", "vdb_search_data"} =>
        /\ out.hits = Above(Take(req.ranking, req.top_k))
        /\ Len(out.hits) <= req.top_k
        /\ \A c \in CosineSamples :
              /\ search_data(req.ranking, req.top_k, c)[1] = out.hits
              /\ vdb_search_data(req.ranking, req.top_k, c) = out.hits

\* a ranking of three hits, top_k = 2: the hit at 0.8 is dropped, the third
\* hit is beyond top_k
C7_Witness ==
    /\ out.kind = "search_data"
    /\ req.top_k = 2
    /\ req.ranking = <<HitOf(1, 80), HitOf(2, 90), HitOf(3, 90)>>
    /\ out.hits = <<HitOf(2, 90)>>

-----------------------------------------------------------------------------
(* Properties of the service (specification Spec) *)

BackendEndpoints ==
    {"/local_upload", "/api_upload_image", "/search", "/api_search_image",
     "/compare", "/compare_by_path", "/compare_by_base64", "/compare_by_url",
     "/api_upload_to_minio"}

\* the steps of the request's trace that are one of ops
At(ops) == {k \in 1..Len(trace) : trace[k].op \in ops}
\* those of them that failed
Failed(ops) == {k \in At(ops) : ~trace[k].ok}

\* the steps of a handler that raise when they fail
RaisingSteps ==
    {"makedirs", "read", "open", "write", "embed_call", "vl_call", "vl_call_url",
     "put_object", "insert", "search", "minio_init"}

\* C1: in every endpoint of the backend app an exception raised at any step
\* of a request (the temp directory, reading the file, the embedding or
\* model call, the storage call, the database call) is caught by the handler
\* and answered with an envelope of code 201; none leaves a handler.
C1_EveryExceptionAnswered201 ==
    (pc = "responded" /\ req.ep \in BackendEndpoints /\ Failed(RaisingSteps) # {})
        => resp.kind = "envelope" /\ resp.code = MessageCode_FAIL

\* a body with exactly code, msg and data, code 200 or 201, and the success
\* text exactly with code 200
IsEnvelope(r) ==
    /\ r.kind = "envelope"
    /\ r.fields = {"code", "msg", "data"}
    /\ r.code \in {200, 201}
    /\ r.msg = MessageStatus_SUCCESS <=> r.code = 200

\* C2 as stated: every response of every HTTP endpoint of the repository is
\* a JSON object with exactly the fields code, msg and data, code 200 or
\* 201, msg the success text if and only if code is 200.
C2_UniformEnvelope == pc = "responded" => IsEnvelope(resp)

\* the request whose temp directory could not be made, in the two handlers
\* that make it before their try
TempDirEscapes ==
    /\ req.ep \in {"/search", "/api_search_image"}
    /\ Failed({"makedirs"}) # {}

\* C2, amended: every response of an endpoint of the backend app is such an
\* envelope, but for /search and /api_search_image when the temp directory
\* cannot be made, where the exception leaves the handler; the endpoints of
\* the stand-alone application answer with bodies of their own.
C2_BackendEnvelope ==
    (pc = "responded" /\ req.ep \in BackendEndpoints) =>
        IF TempDirEscapes THEN resp.kind = "unhandled" ELSE IsEnvelope(resp)

\* a failure of /local_upload: code 201 with the failure text
C2_Witness ==
    /\ pc = "responded"
    /\ req.ep = "/local_upload"
    /\ resp = FailTraceback("ValueError")

\* C3: no call of the embedding API or of the vision-language API is made
\* for bytes that fail validate_image: the services raise ValueError before
\* the call, and /compare_by_base64 answers 201 with data null naming the
\* first invalid image, the first image being checked before the second.
C3_NoCallForInvalidImage ==
    pc = "responded" =>
        /\ \A k \in At({"embed_call"}) : validate_image(trace[k].data)
        /\ \A k \in At({"vl_call"}) :
              validate_image(trace[k].data[1]) /\ validate_image(trace[k].data[2])
        /\ (req.ep \in BackendEndpoints \ {"/compare_by_base64"}
              /\ Failed({"validate"}) # {})
              => resp = FailTraceback("ValueError")
        /\ req.ep = "/compare_by_base64" =>
              LET d1 == decode_body(req.image1_base64)
                  d2 == decode_body(req.image2_base64)
              IN  (d1.ok /\ d2.ok) =>
                    /\ ~validate_image(d1.data) =>
                          resp = ApiResponse(MessageCode_FAIL, "IMAGE1_DATA_INVALID", Null)
                    /\ (validate_image(d1.data) /\ ~validate_image(d2.data)) =>
                          resp = ApiResponse(MessageCode_FAIL, "IMAGE2_DATA_INVALID", Null)

\* both images of a /compare_by_base64 decode to bytes that are no image:
\* the answer names the first
C3_Witness ==
    /\ pc = "responded"
    /\ req.ep = "/compare_by_base64"
    /\ req.image1_base64 = <<"A","A","A","A">>
    /\ req.image2_base64 = <<"A","A","A","A">>
    /\ resp = ApiResponse(MessageCode_FAIL, "IMAGE1_DATA_INVALID", Null)
    /\ At({"vl_call"}) = {}

ByNameEndpoints ==
    {"/compare", "/compare_by_path", "/api_upload_to_minio", "/api_search_image",
     "/api_upload_image"}

\* the name of the k-th file of the request
NameOfFile(k) ==
    CASE req.ep = "/compare" ->
           IF k = 1 THEN req.image1.filename ELSE req.image2.filename
      [] req.ep = "/compare_by_path" ->
           IF k = 1 THEN req.image1_path ELSE req.image2_path
      [] OTHER -> req.files[k].filename

\* the calls made for one file
FileSteps == {"read", "open", "embed_call", "put_object", "insert", "search"}

\* C4: in the endpoints that receive image files by name a file is
\* processed if and only if its extension, lowered, is one of .jpg, .jpeg,
\* .png, .bmp; for a file of another extension no embedding, model,
\* object-storage or database call is made.
C4_ExtensionDecidesCaseInsensitively ==
    (pc = "responded" /\ req.ep \in ByNameEndpoints) =>
        /\ \A k \in At({"ext_check"}) :
              trace[k].ok = ext_ok_lowered(NameOfFile(trace[k].i))
        /\ \A k \in At(FileSteps) : ext_ok_lowered(NameOfFile(trace[k].i))
        /\ Failed({"ext_check"}) # {} => At({"vl_call"}) = {}

\* C5: in /compare_by_base64, when decoding either input fails the response
\* has code 201, data null and the decode-failure message, and neither the
\* validation nor the model call takes place; decode_base64_image signals
\* every failure as ValueError.
C5_DecodeFailureAnswered ==
    /\ \A b \in Base64Samples :
          ~decode_base64_image(b).ok => decode_base64_image(b).exc = "ValueError"
    /\ (/\ pc = "responded"
        /\ req.ep = "/compare_by_base64"
        /\ \/ ~decode_body(req.image1_base64).ok
           \/ ~decode_body(req.image2_base64).ok)
        => /\ resp = ApiResponse(MessageCode_FAIL, "BASE64_DECODE_FAILED", Null)
           /\ At({"validate", "vl_call"}) = {}

\* the first input decodes, the second has a wrong padding
C5_Witness ==
    /\ pc = "responded"
    /\ req.ep = "/compare_by_base64"
    /\ req.image1_base64 = <<"Q","k","0","A">>
    /\ req.image2_base64 = <<"Q","k","0">>
    /\ trace = <<Ev("decode", 1, <<>>, TRUE), Ev("decode", 2, <<>>, FALSE)>>
    /\ resp = ApiResponse(MessageCode_FAIL, "BASE64_DECODE_FAILED", Null)

\* C6: in /compare_by_path both paths are checked for existence before an
\* extension is checked and before a file is opened; when the first path
\* does not exist the response is 201 with data null naming the first image
\* whatever the second path is; when an existence or extension check fails
\* no file is read and no model call is made.
C6_ExistenceBeforeExtension ==
    (pc = "responded" /\ req.ep = "/compare_by_path") =>
        /\ \A a \in At({"exists"}), b \in At({"ext_check", "open", "read"}) : a < b
        /\ At({"ext_check", "open", "read"}) # {} => Cardinality(At({"exists"})) = 2
        /\ (Len(trace) >= 1 /\ trace[1] = Ev("exists", 1, <<>>, FALSE))
              => resp = ApiResponse(MessageCode_FAIL, "IMAGE1_NOT_FOUND", Null)
        /\ Failed({"exists", "ext_check"}) # {}
              => /\ At({"open", "read", "validate", "vl_call"}) = {}
                 /\ resp.code = MessageCode_FAIL
                 /\ resp.data = Null

\* the first path is missing and the second has an extension that is not
\* allowed
C6_Witness ==
    /\ pc = "responded"
    /\ req.ep = "/compare_by_path"
    /\ req.image2_path = <<"c",".","t","x","t">>
    /\ trace = <<Ev("exists", 1, <<>>, FALSE)>>
    /\ resp = ApiResponse(MessageCode_FAIL, "IMAGE1_NOT_FOUND", Null)

IsPrefix(s, t) == Len(s) <= Len(t) /\ SubSeq(t, 1, Len(s)) = s

ReadOnlyEndpoints ==
    {"/search", "/api_search_image", "/compare", "/compare_by_path",
     "/compare_by_base64", "/compare_by_url"}

\* C8: over any sequence of requests the rows of the collection are only
\* added: the rows held stay as they are, in their place, and a search or a
\* compare request leaves the collection as it was.
C8_RowsOnlyAdded ==
    [][/\ IsPrefix(rows, rows')
       /\ req'.ep \in ReadOnlyEndpoints => rows' = rows]_vars

\* a search answered while the collection holds two different rows
C8_Witness ==
    /\ pc = "responded"
    /\ req.ep = "/api_search_image"
    /\ resp.code = MessageCode_SUCCESS
    /\ Len(rows) = 2
    /\ rows[1] # rows[2]

\* the URL /api_upload_image got for its i-th file ("" when the upload
\* failed)
UrlOfFile(i) ==
    LET puts == {k \in At({"put_object"}) : trace[k].i = i}
        k == CHOOSE x \in puts : TRUE
    IN  IF puts # {} /\ trace[k].ok THEN url_prefix \o trace[k].data ELSE <<>>

\* C9: each row /api_upload_image inserts holds the class identifier (the
\* MD5 hex digest of the class name), the class name, the file name, the
\* description supplied for the file, the object-storage URL obtained for
\* the file, and the embedding vector.
C9_RowHoldsAllFields ==
    (pc = "responded" /\ req.ep = "/api_upload_image") =>
        LET done == SelectSeq(trace, LAMBDA e : e.op = "insert" /\ e.ok)
            m == Len(done)
        IN  \A j \in 1..m :
              LET i == done[j].i
                  row == rows[Len(rows) - m + j]
              IN  /\ row.class_id = compute_args_hash(req.categories.v[i])
                  /\ row.class_name = req.categories.v[i]
                  /\ row.file_path = req.files[i].filename
                  /\ row.vector = VectorOf(EmbeddingSample)
                  /\ "file_description" \in DOMAIN row
                  /\ row.file_description = req.descriptions.v[i]
                  /\ "file_url" \in DOMAIN row
                  /\ row.file_url = UrlOfFile(i)

-----------------------------------------------------------------------------
(* src/main.py: /image-vector-save and /image-search, with the collection  *)
(* MILVUS_COLLECTION of src/milvus_client.py.  In the specification of the *)
(* stand-alone application, rows is that collection.                       *)

\* Milvus as one request of the stand-alone application finds it: what the
\* first load_collection answers ("ok", "index not found", or another
\* error) and what has_collection answers
MilvusSamples ==
    { [load |-> l, has_collection |-> h] :
        l \in {"ok", "index not found", "timeout"}, h \in BOOLEAN }

\* extract_embedding_from_response of embedding_service.py
extract_embedding_from_response(embed) ==
    IF embed.status # 200 THEN NoVector
    ELSE IF embed.output \in {"embeddings", "embedding"} THEN VectorOf(EmbeddingSample)
    ELSE NoVector

\* lines 103-117 and 221-235: the content type, the bytes and the vector;
\* the exceptions of vectorize_image are answered by the outer except clause
vectorized(file, embed, fault) ==
    LET r == <<Ev("read", 1, <<>>, fault # FaultAt("read", 1))>>
        v == r \o <<Ev("validate", 1, file.data, validate_image(file.data))>>
        c == v \o <<Ev("embed_call", 1, file.data, fault # FaultAt("embed", 1))>>
        embedding == extract_embedding_from_response(embed)
    IN  IF ~file.content_type.some \/ ~startswith(file.content_type.v, image_slash)
        THEN Done(HTTPException(400), <<>>)
        ELSE IF fault = FaultAt("read", 1) THEN Done(HTTPException(400), r)
        ELSE IF ~validate_image(file.data) THEN Done(HTTPException(502), v)
        ELSE IF fault = FaultAt("embed", 1) THEN Done(HTTPException(502), c)
        ELSE IF ~embedding.some THEN Done(HTTPException(502), c)
        ELSE Done(JSONResponse({}), c)

\* what a handler of the stand-alone application hands back
Saved(done, table) == [resp |-> done.resp, ev |-> done.ev, rows |-> table]

\* POST /image-vector-save (lines 86-205); now is the clock in milliseconds.
\* The uploads have a name, and content is shorter than the 9000 characters
\* kept of it.
image_vector_save(file, doc_id, content, table, embed, fault, now) ==
    LET v == vectorized(file, embed, fault)
        id == IF doc_id.some THEN doc_id.v ELSE now
        text == IF content.some THEN content.v ELSE file.filename
        g == v.ev \o <<Ev("connect", 0, <<>>, fault # FaultAt("connect", 0))>>
        row == [doc_id |-> id, vector |-> EmbeddingSample, content |-> text]
        i == g \o <<Ev("insert", 1, row, fault # FaultAt("insert", 1))>>
    IN  IF v.resp.kind # "json" THEN Saved(v, table)
        ELSE IF fault = FaultAt("connect", 0) THEN Saved(Done(HTTPException(500), g), table)
        ELSE IF fault = FaultAt("insert", 1) THEN Saved(Done(HTTPException(500), i), table)
        ELSE Saved(Done(JSONResponse({"success", "doc_id", "vector_dim", "content",
                                      "insert_result", "message"}), i),
                   Append(table, row))

\* lines 245-278 with a second load after every failed load
load_retrying_always(milvus, fault) ==
    LET l1 == <<Ev("load_collection", 0, <<milvus.load>>, milvus.load = "ok")>>
        l2 == l1 \o <<Ev("load_collection", 0, <<>>, fault # FaultAt("load", 2))>>
    IN  IF milvus.load = "ok" THEN Returned(Null, l1)
        ELSE IF fault = FaultAt("load", 2) THEN Raised("HTTPException", l2)
        ELSE Returned(Null, l2)

\* lines 245-278: the collection is loaded; when that fails for want of an
\* index, the index is created and the collection loaded once more
load(milvus, fault) ==
    LET l1 == <<Ev("load_collection", 0, <<milvus.load>>, milvus.load = "ok")>>
        h == l1 \o <<Ev("has_collection", 0, <<>>, fault # FaultAt("has_collection", 0))>>
        x == h \o <<Ev("create_index", 0, <<>>, fault # FaultAt("create_index", 0))>>
        l2 == x \o <<Ev("load_collection", 0, <<>>, fault # FaultAt("load", 2))>>
    IN  IF milvus.load = "ok" THEN Returned(Null, l1)
        ELSE IF fault = FaultAt("has_collection", 0) THEN Raised("MilvusException", h)
        ELSE IF ~milvus.has_collection THEN Raised("HTTPException", h)
        ELSE IF milvus.load # "index not found" THEN Raised("HTTPException", h)
        ELSE IF fault = FaultAt("create_index", 0) THEN Raised("HTTPException", x)
        ELSE IF fault = FaultAt("load", 2) THEN Raised("HTTPException", l2)
        ELSE Returned(Null, l2)

\* the collection's metric is L2: the ranking Milvus computes for a query
\* is by ascending distance
l2_ranking(table, dist) ==
    LET r == milvus_ranking(table, [k \in 1..Len(table) |-> 0 - dist[k]])
    IN  [k \in 1..Len(r) |-> [r[k] EXCEPT !.distance = 0 - r[k].distance]]

\* lines 289-342: one item for every hit of the first list
result_items(hits) ==
    [k \in 1..Len(hits) |->
        [id |-> hits[k].id, doc_id |-> hits[k].entity.doc_id,
         content |-> hits[k].entity.content,
         distance |-> hits[k].distance, score |-> hits[k].distance]]

\* POST /image-search (lines 206-359); every exception raised between
\* get_milvus_client and the response, an HTTPException too, is answered by
\* the except clause of line 353 with status 500
image_search(file, top_k, table, dist, embed, milvus, fault) ==
    LET v == vectorized(file, embed, fault)
        g == v.ev \o <<Ev("connect", 0, <<>>, fault # FaultAt("connect", 0))>>
        l == load(milvus, fault)
        s == g \o l.ev \o <<Ev("search", 1, <<>>, fault # FaultAt("search", 1))>>
        search_results == client_search(l2_ranking(table, dist), top_k)
    IN  IF v.resp.kind # "json" THEN Saved(v, table)
        ELSE IF fault = FaultAt("connect", 0) THEN Saved(Done(HTTPException(500), g), table)
        ELSE IF l.raised THEN Saved(Done(HTTPException(500), g \o l.ev), table)
        ELSE IF fault = FaultAt("search", 1) THEN Saved(Done(HTTPException(500), s), table)
        ELSE Saved(Done([JSONResponse({"success", "query_vector_dim", "top_k",
                                       "results_count", "results", "message"})
                            EXCEPT !.data = ResultOf(result_items(search_results[1]))], s),
                   table)

\* the parameters of /image-vector-save and /image-search
DocIdSamples == {[some |-> FALSE, v |-> 0], [some |-> TRUE, v |-> 7]}
ContentSamples == {None, Some(<<"d">>)}
ClockSamples == {9}
TopKSamples == {1, 2}

ImageVectorSave ==
    /\ pc = "idle"
    /\ \E file \in FileSamples, doc_id \in DocIdSamples, content \in ContentSamples,
          embed \in EmbedSamples, now \in ClockSamples,
          fault \in {NoFault, FaultAt("read", 1), FaultAt("embed", 1),
                     FaultAt("connect", 0), FaultAt("insert", 1)} :
         LET fin == image_vector_save(file, doc_id, content, rows, embed, fault, now)
         IN  /\ Len(fin.rows) <= MaxRows
             /\ req' = [ep |-> "/image-vector-save", file |-> file,
                        doc_id |-> doc_id, content |-> content]
             /\ resp' = fin.resp
             /\ trace' = fin.ev
             /\ rows' = fin.rows
             /\ pc' = "responded"
             /\ UNCHANGED <<objects, minio_client, out>>

ImageSearch ==
    /\ pc = "idle"
    /\ \E file \in FileSamples, top_k \in TopKSamples, dist \in Distances(rows),
          embed \in EmbedSamples, milvus \in MilvusSamples,
          fault \in {NoFault, FaultAt("read", 1), FaultAt("embed", 1),
                     FaultAt("connect", 0), FaultAt("has_collection", 0),
                     FaultAt("create_index", 0), FaultAt("load", 2),
                     FaultAt("search", 1)} :
         Respond([ep |-> "/image-search", file |-> file, top_k |-> top_k],
                 image_search(file, top_k, rows, dist, embed, milvus, fault))

NextStandalone ==
    \/ Vectorize
    \/ ImageVectorSave
    \/ ImageSearch
    \/ Health
    \/ Deliver

SpecStandalone == Init /\ [][NextStandalone]_vars

-----------------------------------------------------------------------------
(* Properties of one request's calls of the external services *)

\* the calls of the embedding API, of the vision-language API and of Milvus
ExternalOps ==
    {"embed_call", "vl_call", "vl_call_url", "insert", "search", "load_collection"}

\* the steps j < k of the trace that are the same call for the same file
Repeats ==
    { p \in At(ExternalOps) \X At(ExternalOps) :
        /\ p[1] < p[2]
        /\ trace[p[1]].op = trace[p[2]].op
        /\ trace[p[1]].i = trace[p[2]].i }

-----------------------------------------------------------------------------
(* The event loop of one process: the requests in hand are coroutines that *)
(* take turns on the loop thread.  A call written with await leaves the    *)
(* loop thread to the other coroutines until it returns; a call written    *)
(* plainly runs on the loop thread and keeps it.  In this specification pc *)
(* and req are functions of the request, resp holds what get_minio_client  *)
(* read of the singleton, and trace is the log of get_minio_client.        *)

\* requests in hand at once
MaxRequests == 2

\* a step of a handler: the function called, the services it reaches, and
\* how the call is written ("await": an awaited coroutine; "to_thread":
\* await asyncio.to_thread(...); "direct": a plain call)
Step(name, calls, mode) == [name |-> name, calls |-> calls, mode |-> mode]

\* the steps of the handlers for one file, in order
Script(ep) ==
    CASE ep = "/compare" ->
           << Step("read", {}, "await"),
              Step("compare_images_service", {"vl"}, "to_thread") >>
      [] ep = "/api_upload_image" ->
           << Step("get_minio_client", {"minio"}, "direct"),
              Step("read", {}, "await"),
              Step("upload_file", {"minio"}, "direct"),
              Step("write", {}, "await"),
              Step("insert_image_service", {"embedding", "milvus"}, "to_thread") >>
      [] ep = "/api_search_image" ->
           << Step("read", {}, "await"),
              Step("write", {}, "await"),
              Step("search_image_service", {"embedding", "milvus"}, "to_thread") >>
      [] ep = "/api_upload_to_minio" ->
           << Step("get_minio_client", {"minio"}, "direct"),
              Step("read", {}, "await"),
              Step("upload_file", {"minio"}, "direct") >>
      [] ep = "/vectorize" ->
           << Step("read", {}, "await"),
              Step("vectorize_image", {"embedding"}, "direct") >>
      [] ep = "/image-vector-save" ->
           << Step("read", {}, "await"),
              Step("vectorize_image", {"embedding"}, "direct"),
              Step("insert", {"milvus"}, "direct") >>
      [] ep = "/image-search" ->
           << Step("read", {}, "await"),
              Step("vectorize_image", {"embedding"}, "direct"),
              Step("search", {"milvus"}, "direct") >>

\* the two applications and the endpoints each serves
AppEndpoints ==
    { {"/compare", "/api_upload_image", "/api_search_image", "/api_upload_to_minio"},
      {"/vectorize", "/image-vector-save", "/image-search"} }

Requests == 1..MaxRequests

\* where a coroutine is: "queued" (ready, waiting for the loop thread),
\* "loop" (running on it, between two calls), "calling" (in the call of
\* its current step), "done"
At_(r, where) == pc[r].at = where
CurrentStep(r) == Script(req[r].ep)[pc[r].step]

\* the thread the call in progress of request r runs on
ThreadOf(r) ==
    IF CurrentStep(r).mode = "direct" THEN "loop"
    ELSE IF CurrentStep(r).mode = "to_thread" THEN "worker"
    ELSE "io"

HoldsLoop(r) == At_(r, "loop") \/ (At_(r, "calling") /\ ThreadOf(r) = "loop")

InitLoop ==
    /\ rows = <<>>
    /\ objects = {}
    /\ minio_client = "unset"
    /\ pc = [r \in Requests |-> [step |-> 1, at |-> "queued"]]
    /\ \E eps \in AppEndpoints : req \in [Requests -> {[ep |-> e] : e \in eps}]
    /\ resp = [r \in Requests |-> "unread"]
    /\ trace = <<>>
    /\ out = NoOut

\* the loop thread is free: it runs a coroutine that is ready
LoopResume(r) ==
    /\ At_(r, "queued")
    /\ \A q \in Requests : ~HoldsLoop(q)
    /\ pc' = [pc EXCEPT ![r].at = "loop"]
    /\ UNCHANGED <<rows, objects, minio_client, req, resp, trace, out>>

\* the coroutine makes the call of its next step; get_minio_client starts
\* with reading the singleton
LoopCall(r) ==
    /\ At_(r, "loop")
    /\ pc[r].step <= Len(Script(req[r].ep))
    /\ pc' = [pc EXCEPT ![r].at = "calling"]
    /\ resp' = IF CurrentStep(r).name = "get_minio_client"
               THEN [resp EXCEPT ![r] = minio_client]
               ELSE resp
    /\ UNCHANGED <<rows, objects, minio_client, req, trace, out>>

\* the call returns: a direct call leaves the coroutine on the loop thread,
\* an awaited one makes it ready.  get_minio_client ends with the
\* construction, when it read None, and the handler answers at once when it
\* raises.
LoopReturn(r) ==
    /\ At_(r, "calling")
    /\ LET after == IF CurrentStep(r).mode = "direct" THEN "loop" ELSE "queued"
       IN  IF CurrentStep(r).name = "get_minio_client"
           THEN \E fault \in {NoFault, FaultAt("minio_init", 0)} :
                  LET g == get_minio_client(resp[r], fault)
                  IN  /\ minio_client' = IF resp[r] = "unset" /\ ~g.raised
                                         THEN g.client ELSE minio_client
                      /\ trace' = trace \o [k \in 1..Len(g.ev) |-> [g.ev[k] EXCEPT !.i = r]]
                                        \o <<Ev("get_minio_client", r, <<>>, ~g.raised)>>
                      /\ pc' = [pc EXCEPT ![r] =
                                  [step |-> IF g.raised THEN Len(Script(req[r].ep)) + 1
                                            ELSE pc[r].step + 1,
                                   at |-> after]]
           ELSE /\ pc' = [pc EXCEPT ![r] = [step |-> pc[r].step + 1, at |-> after]]
                /\ UNCHANGED <<minio_client, trace>>
    /\ UNCHANGED <<rows, objects, req, resp, out>>

\* the handler returns its response
LoopAnswer(r) ==
    /\ At_(r, "loop")
    /\ pc[r].step > Len(Script(req[r].ep))
    /\ pc' = [pc EXCEPT ![r].at = "done"]
    /\ UNCHANGED <<rows, objects, minio_client, req, resp, trace, out>>

NextLoop ==
    \E r \in Requests : LoopResume(r) \/ LoopCall(r) \/ LoopReturn(r) \/ LoopAnswer(r)

SpecLoop == InitLoop /\ [][NextLoop]_vars

\* C12: every call of the embedding API, of the vision-language API and of
\* the vector database made while serving a request runs on a worker
\* thread and never on the event-loop thread, so that the loop thread is
\* free for a second request while the call is in progress.
C12_CallsOffTheLoopThread ==
    \A r \in Requests :
        (At_(r, "calling") /\ CurrentStep(r).calls \cap {"embedding", "vl", "milvus"} # {})
            => ThreadOf(r) = "worker" /\ ~HoldsLoop(r)


\* the constructions of MinIOClient that succeeded, among the first n
\* entries of the log
Constructed(n) == {k \in 1..n : trace[k].op = "minio_init" /\ trace[k].ok}

\* C13: under any interleaving of concurrent requests at most one
\* MinIOClient is ever successfully constructed in a process; it is
\* constructed on the first call of get_minio_client and not at start-up,
\* every later call returns that instance without constructing, and a
\* construction that raises leaves the singleton unset, so that the next
\* call constructs again.
C13_OneClientPerProcess ==
    /\ Cardinality(Constructed(Len(trace))) <= 1
    /\ minio_client = "set" <=> Constructed(Len(trace)) # {}
    /\ \A k \in 1..Len(trace) :
         trace[k].op = "get_minio_client" =>
            LET own == k > 1 /\ trace[k-1].op = "minio_init" /\ trace[k-1].i = trace[k].i
            IN  IF Constructed(k - 1) \ {k - 1} # {}
                THEN ~own /\ trace[k].ok
                ELSE own /\ (trace[k].ok <=> trace[k-1].ok)

\* two requests have their client: the first constructed it, the second
\* got the same
C13_Witness ==
    /\ \A r \in Requests : At_(r, "done")
    /\ Len(trace) = 3
    /\ trace[1].op = "minio_init" /\ trace[1].ok
    /\ trace[2].op = "get_minio_client" /\ trace[2].ok
    /\ trace[3].op = "get_minio_client" /\ trace[3].ok /\ trace[3].i # trace[2].i

-----------------------------------------------------------------------------
(* Properties of /compare_by_url (specification Spec) *)

\* an http or https URL with a host, or a data URL of an image
IsHttpUrl(url) == urlparse(url)[1] \in {http, https} /\ urlparse(url)[2] # <<>>
IsImageDataUrl(url) == startswith(url, data_prefix \o image_slash)

\* C14: api_compare_images_by_url accepts, for each of its two image URLs,
\* either an http/https URL or a data URL data:image/<type>;base64,<data>,
\* and carries out the comparison in both cases: the model is called with
\* the two URLs.
C14_HttpAndDataUrlsCompared ==
    ( /\ pc = "responded"
      /\ req.ep = "/compare_by_url"
      /\ IsHttpUrl(req.image1_url) \/ IsImageDataUrl(req.image1_url)
      /\ IsHttpUrl(req.image2_url) \/ IsImageDataUrl(req.image2_url) )
        => \E k \in At({"vl_call_url"}) :
              trace[k].data = <<req.image1_url, req.image2_url>>

-----------------------------------------------------------------------------
(* backend/app/service/imgcompare.py, lines 185-196 and 413-418: from the  *)
(* dict parsed out of the model's text to the ImageCompareResult.  Numbers *)
(* are in hundredths; a float is a number, nan, or an infinity (n is its   *)
(* sign).                                                                  *)

Json(kind, n, b, s) == [kind |-> kind, n |-> n, b |-> b, s |-> s]
Num(v) == Json("num", v, FALSE, <<>>)
NaN == Json("nan", 0, FALSE, <<>>)
Inf(sign) == Json("inf", sign, FALSE, <<>>)

\* a < b on floats: false when either is nan
FloatLt(a, b) ==
    IF a.kind = "nan" \/ b.kind = "nan" THEN FALSE
    ELSE IF a.kind = "inf" THEN a.n < 0 /\ ~(b.kind = "inf" /\ b.n < 0)
    ELSE IF b.kind = "inf" THEN b.n > 0
    ELSE a.n < b.n

\* min(a, b) and max(a, b) of Python: the first argument unless the second
\* is smaller (larger)
py_min(a, b) == IF FloatLt(b, a) THEN b ELSE a
py_max(a, b) == IF FloatLt(a, b) THEN b ELSE a

\* a JSON value the dict may hold for a key, or Missing when it has not
\* the key: numbers (json.loads reads NaN and Infinity too), true and
\* false, strings, null
Missing == Json("missing", 0, FALSE, <<>>)
JsonNull == Json("null", 0, FALSE, <<>>)
JsonBool(b) == Json("bool", 0, b, <<>>)
JsonStr(s) == Json("str", 0, FALSE, s)

\* the digits of a text as a number
RECURSIVE DigitsValue(_)
DigitsValue(s) ==
    IF s = <<>> THEN 0
    ELSE 10 * DigitsValue(SubSeq(s, 1, Len(s) - 1))
         + (CHOOSE d \in 0..9 : ToString(d) = s[Len(s)])

\* float(x): a number as it is, True and False as 1.0 and 0.0, a string
\* when it reads as a number; ValueError for another string, TypeError for
\* None.  The strings here are digits with at most one point and two
\* decimals, or hold no number at all.
float(x) ==
    IF x.kind \in {"num", "nan", "inf"} THEN [ok |-> TRUE, exc |-> "", f |-> x]
    ELSE IF x.kind = "bool"
    THEN [ok |-> TRUE, exc |-> "", f |-> Num(IF x.b THEN 100 ELSE 0)]
    ELSE IF x.kind = "str"
    THEN LET whole == before_first(x.s, ".")
             frac == IF find(x.s, ".") = 0 THEN <<>> ELSE after_first(x.s, ".")
             digits == whole \o frac
         IN  IF /\ digits # <<>>
                /\ \A k \in 1..Len(digits) : digits[k] \in DigitChars
                /\ Len(frac) <= 2
             THEN [ok |-> TRUE, exc |-> "",
                   f |-> Num(100 * DigitsValue(whole)
                             + (IF Len(frac) = 1 THEN 10 ELSE 1) * DigitsValue(frac))]
             ELSE [ok |-> FALSE, exc |-> "ValueError", f |-> NaN]
    ELSE [ok |-> FALSE, exc |-> "TypeError", f |-> NaN]

\* the text of the default reason
NoReasonGiven == <<"CJK", "CJK", "CJK", "CJK", "CJK">>

\* result_dict.get(key, default)
get(result_dict, key, default) ==
    IF result_dict[key].kind = "missing" THEN default ELSE result_dict[key]

\* bool(x)
bool(x) ==
    IF x.kind = "bool" THEN x.b
    ELSE IF x.kind = "num" THEN x.n # 0
    ELSE IF x.kind = "str" THEN x.s # <<>>
    ELSE x.kind \in {"nan", "inf"}

\* a result whose confidence is taken as it comes
ImageCompareResult_unclamped(result_dict) ==
    LET confidence == float(get(result_dict, "confidence", Num(50)))
    IN  IF ~confidence.ok THEN Raised(confidence.exc, <<>>)
        ELSE Returned(ResultOf([is_same |-> bool(get(result_dict, "is_same", JsonBool(FALSE))),
                                confidence |-> confidence.f,
                                reason |-> get(result_dict, "reason", JsonStr(NoReasonGiven)).s]),
                      <<>>)

\* lines 186-196 of compare_images_service and 414-418 of
\* compare_images_by_url_service: the same three expressions
ImageCompareResult(result_dict) ==
    LET confidence == float(get(result_dict, "confidence", Num(50)))
    IN  IF ~confidence.ok THEN Raised(confidence.exc, <<>>)
        ELSE Returned(ResultOf([is_same |-> bool(get(result_dict, "is_same", JsonBool(FALSE))),
                                confidence |-> py_max(Num(0), py_min(Num(100), confidence.f)),
                                reason |-> get(result_dict, "reason", JsonStr(NoReasonGiven)).s]),
                      <<>>)


\* the dicts parsed out of the model's text
ConfidenceSamples ==
    { Missing, JsonNull, Num(0 - 50), Num(0), Num(30), Num(100), Num(150), NaN,
      Inf(1), Inf(0 - 1), JsonBool(TRUE), JsonBool(FALSE),
      JsonStr(<<"0", ".", "7">>), JsonStr(<<"2">>), JsonStr(<<"h", "i", "g", "h">>) }

ResultDictSamples ==
    [is_same : {Missing, JsonBool(TRUE), JsonBool(FALSE), JsonStr(<<"n", "o">>)},
     confidence : ConfidenceSamples,
     reason : {Missing, JsonStr(<<"r">>)}]

InitResult ==
    /\ rows = <<>>
    /\ objects = {}
    /\ minio_client = "unset"
    /\ pc = "idle"
    /\ req \in [ep : {"ImageCompareResult"}, result_dict : ResultDictSamples]
    /\ resp = NoResp
    /\ trace = <<>>
    /\ out = NoOut

\* compare_images_service, lines 185-196
CompareResult ==
    /\ pc = "idle"
    /\ out' = [kind |-> "compare_images_service", r |-> ImageCompareResult(req.result_dict)]
    /\ pc' = "built"
    /\ UNCHANGED <<rows, objects, minio_client, req, resp, trace>>

\* compare_images_by_url_service, lines 413-418
CompareByUrlResult ==
    /\ pc = "idle"
    /\ out' = [kind |-> "compare_images_by_url_service",
               r |-> ImageCompareResult(req.result_dict)]
    /\ pc' = "built"
    /\ UNCHANGED <<rows, objects, minio_client, req, resp, trace>>

NextResult == CompareResult \/ CompareByUrlResult

SpecResult == InitResult /\ [][NextResult]_vars

\* C15: every ImageCompareResult returned by compare_images_service or
\* compare_images_by_url_service has a confidence between 0.0 and 1.0
\* inclusive, whatever numeric confidence the model's text holds: a value
\* below 0 becomes 0, a value above 1 becomes 1, and an answer without a
\* confidence field yields 0.5.
C15_ConfidenceWithinUnitInterval ==
    (pc = "built" /\ ~out.r.raised) =>
        LET confidence == out.r.val.v.confidence
            given == req.result_dict.confidence
        IN  /\ confidence.kind = "num"
            /\ 0 <= confidence.n /\ confidence.n <= 100
            /\ (given.kind = "num" /\ given.n < 0) => confidence.n = 0
            /\ (given.kind = "num" /\ given.n > 100) => confidence.n = 100
            /\ given.kind = "missing" => confidence.n = 50

\* a confidence of 1.5 in the text: the result holds 1.0
C15_Witness ==
    /\ pc = "built"
    /\ out.kind = "compare_images_by_url_service"
    /\ req.result_dict.confidence = Num(150)
    /\ ~out.r.raised
    /\ out.r.val.v.confidence = Num(100)

-----------------------------------------------------------------------------
(* Data URLs: image_to_data_url of utils/process.py against the two        *)
(* decoders, decode_base64_image of api/v1/compare.py and                  *)
(* download_image_from_url of service/imgcompare.py.                       *)

\* the longest byte string encoded
MaxBytes == 3

\* base64.b64encode: three bytes become four characters of the alphabet,
\* and a last group of one or two bytes is padded with "="
RECURSIVE b64encode(_)
b64encode(s) ==
    IF s = <<>> THEN <<>>
    ELSE
      LET n == Len(s)
          b1 == s[1]
          b2 == IF n >= 2 THEN s[2] ELSE 0
          b3 == IF n >= 3 THEN s[3] ELSE 0
          c1 == B64Table[(b1 \div 4) + 1]
          c2 == B64Table[(b1 % 4) * 16 + (b2 \div 16) + 1]
          c3 == B64Table[(b2 % 16) * 4 + (b3 \div 64) + 1]
          c4 == B64Table[(b3 % 64) + 1]
      IN  IF n = 1 THEN <<c1, c2, "=", "=">>
          ELSE IF n = 2 THEN <<c1, c2, c3, "=">>
          ELSE <<c1, c2, c3, c4>> \o b64encode(SubSeq(s, 4, n))

base64_marker == <<";","b","a","s","e","6","4",",">>

\* an image_to_data_url that labels every image as image/jpeg
image_to_data_url_as_jpeg(contents, content_type) ==
    data_prefix \o image_jpeg \o base64_marker \o b64encode(contents)

\* image_to_data_url (process.py, lines 72-85)
image_to_data_url(contents, content_type) ==
    LET mime == IF Truthy(content_type) /\ startswith(content_type.v, image_slash)
                THEN content_type.v ELSE image_jpeg
        b64 == b64encode(contents)
    IN  data_prefix \o mime \o base64_marker \o b64

\* what the network answers to the GET of download_image_from_url and what
\* lines 254-287 make of it
HttpSamples ==
    { [ok |-> TRUE, exc |-> "", data |-> BmpMagic, mime |-> image_bmp],
      [ok |-> FALSE, exc |-> "HTTPStatusError", data |-> <<>>, mime |-> <<>>],
      [ok |-> FALSE, exc |-> "RequestError", data |-> <<>>, mime |-> <<>>] }

\* download_image_from_url (imgcompare.py, lines 213-303): a data URL is
\* parsed in place (lines 234-252), every other URL is fetched; the except
\* clauses turn a RequestError into a ConnectionError and every other
\* exception into a ValueError
download_image_from_url(url, answer) ==
    IF startswith(url, data_prefix \o image_slash)
    THEN IF find(url, ",") = 0
         THEN [ok |-> FALSE, exc |-> "ValueError", data |-> <<>>, mime |-> <<>>]
         ELSE LET header == before_first(url, ",")
                  data == after_first(url, ",")
                  mime_type == before_first(
                                  before_first(after_first(header, ":"), ":"), ";")
                  image_data == b64decode(data)
              IN  IF image_data.ok
                  THEN [ok |-> TRUE, exc |-> "", data |-> image_data.bytes,
                        mime |-> mime_type]
                  ELSE [ok |-> FALSE, exc |-> "ValueError", data |-> <<>>, mime |-> <<>>]
    ELSE IF answer.ok THEN answer
    ELSE IF answer.exc = "RequestError" THEN [answer EXCEPT !.exc = "ConnectionError"]
    ELSE [answer EXCEPT !.exc = "ValueError"]

\* the bytes of an image: every string of at most MaxBytes bytes over a byte
\* with all bits clear, one of the ASCII range and one with all bits set
OctetSamples == {0, 77, 255}
ContentsSamples == UNION { [1..n -> OctetSamples] : n \in 0..MaxBytes }

\* content types: none, the empty one, image types, an image type with a
\* parameter, image types holding "," and ":", upper case, and no image type
ContentTypeSamples ==
    { None, Some(<<>>), Some(image_png), Some(image_jpeg),
      Some(image_png \o <<";","q">>),
      Some(image_slash \o <<"a",",","b">>),
      Some(image_slash \o <<"a",":","b">>),
      Some(<<"I","M","A","G","E","/","P","N","G">>),
      Some(<<"t","e","x","t","/","p","l","a","i","n">>) }

InitDataUrl ==
    /\ rows = <<>>
    /\ objects = {}
    /\ minio_client = "unset"
    /\ pc = "idle"
    /\ req \in [ep : {"image_to_data_url"}, contents : ContentsSamples,
                content_type : ContentTypeSamples]
    /\ resp = NoResp
    /\ trace = <<>>
    /\ out = NoOut

ImageToDataUrl ==
    /\ pc = "idle"
    /\ out' = [kind |-> "data_url",
               url |-> image_to_data_url(req.contents, req.content_type)]
    /\ pc' = "encoded"
    /\ UNCHANGED <<rows, objects, minio_client, req, resp, trace>>

DecodeBase64Image ==
    /\ pc = "encoded"
    /\ resp' = decode_base64_image(out.url)
    /\ pc' = "decoded"
    /\ UNCHANGED <<rows, objects, minio_client, req, trace, out>>

DownloadImageFromUrl ==
    /\ pc = "encoded"
    /\ \E answer \in HttpSamples : resp' = download_image_from_url(out.url, answer)
    /\ pc' = "downloaded"
    /\ UNCHANGED <<rows, objects, minio_client, req, trace, out>>

NextDataUrl ==
    \/ ImageToDataUrl
    \/ DecodeBase64Image
    \/ DownloadImageFromUrl

SpecDataUrl == InitDataUrl /\ [][NextDataUrl]_vars

\* the content type is one that image_to_data_url keeps
KeptContentType == Truthy(req.content_type) /\ startswith(req.content_type.v, image_slash)

\* the MIME type a data URL carries: the text between "data:" and ";base64,"
CarriedMime(url) == SubSeq(url, Len(data_prefix) + 1, Len(url) - Len(base64_marker) - Len(b64encode(req.contents)))

\* the decoder gave back the bytes and the content type that were encoded
GaveBack == resp.ok /\ resp.data = req.contents /\ resp.mime = req.content_type.v

\* a MIME type in the strict sense: type "/" subtype without the separators
\* "," ";" ":" that a data URL uses itself
NoSeparator(t) == find(t, ",") = 0 /\ find(t, ";") = 0 /\ find(t, ":") = 0

\* C16 as stated: after either decoder, the bytes and the content type of
\* every content type beginning with "image/" are given back exactly, and
\* every other content type is carried as image/jpeg
C16_RoundTripForEveryImageType ==
    /\ pc \in {"decoded", "downloaded"} /\ KeptContentType => GaveBack
    /\ pc = "encoded" /\ ~KeptContentType => CarriedMime(out.url) = image_jpeg

\* C16, amended: the bytes always come back; the content type comes back
\* exactly when it holds none of "," ";" ":", and otherwise the decoders
\* give the part of it before the first of these characters or fail; a
\* content type that is absent, empty or no image type is carried as
\* image/jpeg and decoded as image/jpeg
C16_RoundTripForPlainImageTypes ==
    /\ pc \in {"decoded", "downloaded"} /\ KeptContentType /\ NoSeparator(req.content_type.v)
         => GaveBack
    /\ pc \in {"decoded", "downloaded"} /\ KeptContentType /\ ~NoSeparator(req.content_type.v)
         => /\ ~GaveBack
            /\ resp.ok => /\ startswith(req.content_type.v, resp.mime)
                          /\ Len(resp.mime) < Len(req.content_type.v)
                          /\ NoSeparator(resp.mime)
    /\ pc = "encoded" /\ ~KeptContentType => CarriedMime(out.url) = image_jpeg
    /\ pc \in {"decoded", "downloaded"} /\ ~KeptContentType
         => resp.ok /\ resp.data = req.contents /\ resp.mime = image_jpeg

\* a PNG content type and three bytes have made the round trip through
\* download_image_from_url
C16_Witness ==
    /\ pc = "downloaded"
    /\ req.content_type = Some(image_png)
    /\ Len(req.contents) = 3
    /\ resp.ok /\ resp.data = req.contents /\ resp.mime = image_png

-----------------------------------------------------------------------------
(* vectorize_image and the two services that call it, on their own: one    *)
(* call of one of them, for every answer and every failure of the          *)
(* embedding API.  In this specification req holds the arguments and the   *)
(* environment of the call, and out what the call gave.                    *)

\* the answers of the embedding API: those of EmbedSamples, a 200 without
\* output, a 200 whose output holds neither list, and the single-vector shape
EmbedAnswers ==
    EmbedSamples \cup { [status |-> 200, output |-> "empty"],
                        [status |-> 200, output |-> "other"],
                        [status |-> 200, output |-> "embedding"] }

\* a failure of call i of op with an exception of class exc
FaultRaising(op, i, exc) == [op |-> op, i |-> i, exc |-> exc]

\* the failures of one call of a service: the embedding call raises one of
\* the exceptions of requests or one of the SDK's own, or Milvus fails
ServiceFaults ==
    {NoFault, FaultAt("insert", 1), FaultAt("search", 1)}
        \cup {FaultRaising("embed", 1, c) : c \in RequestsExceptions \cup {"AuthenticationError"}}

InitVectorize ==
    /\ rows = <<>>
    /\ objects = {}
    /\ minio_client = "unset"
    /\ pc = "idle"
    /\ req \in [ep : {"vectorize_image"}, file_data : ByteSamples,
                provider : ProviderSamples, embed : EmbedAnswers, fault : ServiceFaults]
    /\ resp = NoResp
    /\ trace = <<>>
    /\ out = NoOut

VectorizeImage ==
    /\ pc = "idle"
    /\ out' = [kind |-> "vectorize_image",
               r |-> vectorize_image(req.file_data, req.provider, req.embed, req.fault, 1)]
    /\ pc' = "returned"
    /\ UNCHANGED <<rows, objects, minio_client, req, resp, trace>>

InsertImageService ==
    /\ pc = "idle"
    /\ LET dto == [file_name |-> <<"a",".","j","p","g">>, file_data |-> req.file_data,
                   file_class |-> <<"t">>]
           r == insert_image_service(dto, rows, req.provider, req.embed, req.fault, 1)
       IN  /\ out' = [kind |-> "insert_image_service",
                      r |-> [raised |-> r.raised, exc |-> r.exc, val |-> Null, ev |-> r.ev]]
           /\ rows' = r.rows
    /\ pc' = "returned"
    /\ UNCHANGED <<objects, minio_client, req, resp, trace>>

SearchImageService ==
    /\ pc = "idle"
    /\ \E dist \in Distances(rows) :
         LET dto == [file_name |-> <<"a",".","j","p","g">>, file_data |-> req.file_data]
             r == search_image_service(dto, rows, dist, req.provider, req.embed, req.fault, 1)
         IN  out' = [kind |-> "search_image_service",
                     r |-> [raised |-> r.raised, exc |-> r.exc, val |-> Null, ev |-> r.ev]]
    /\ pc' = "returned"
    /\ UNCHANGED <<rows, objects, minio_client, req, resp, trace>>

NextVectorize ==
    \/ VectorizeImage
    \/ InsertImageService
    \/ SearchImageService

SpecVectorize == InitVectorize /\ [][NextVectorize]_vars

\* the embedding API was called, answered, and its answer holds no embedding
AnsweredWithoutEmbedding ==
    /\ pc = "returned"
    /\ validate_image(req.file_data)
    /\ req.provider = "dashscope"
    /\ req.fault.op # "embed"
    /\ ~get_embedding_from_response(req.embed).some

\* the calls of Milvus the service made
MilvusCalls == {k \in 1..Len(out.r.ev) : out.r.ev[k].op \in {"insert", "search"}}

\* C17: when the embedding API answers without a usable embedding (a status
\* other than 200, no output, an output without an embedding list),
\* vectorize_image raises ValueError, and so insert_image_service inserts
\* no row and search_image_service runs no search.
C17_NoEmbeddingRaisesValueError ==
    AnsweredWithoutEmbedding =>
        /\ out.r.raised
        /\ out.r.exc = "ValueError"
        /\ MilvusCalls = {}
        /\ rows = <<>>

\* the embedding call was made and raised an exception of requests
CallRaisedRequestsException ==
    /\ pc = "returned"
    /\ validate_image(req.file_data)
    /\ req.provider = "dashscope"
    /\ req.fault.op = "embed"
    /\ req.fault.exc \in RequestsExceptions

\* C18: when the embedding call raises SSLError, ConnectionError, HTTPError
\* or RequestException, vectorize_image raises that same exception to its
\* caller; with a provider other than "dashscope" it raises an exception
\* and returns no result.
C18_CallExceptionReachesCaller ==
    /\ CallRaisedRequestsException => out.r.raised /\ out.r.exc = req.fault.exc
    /\ (pc = "returned" /\ req.provider # "dashscope") => out.r.raised

-----------------------------------------------------------------------------
(* /api_upload_image: a failure in the middle of the request *)

\* the steps of one turn of the loop of /api_upload_image whose failure
\* raises (a failed put_object is caught inside the turn)
UploadRaisingSteps == {"makedirs", "read", "write", "validate", "embed_call", "insert"}

\* the successful steps op of the trace t
DoneIn(t, op) == {k \in 1..Len(t) : t[k].op = op /\ t[k].ok}

\* C19: when the handling of the k-th file of an /api_upload_image request
\* raises, the response has code 201 and lists none of the files, and the
\* objects stored and the rows inserted for the files before it stay in the
\* bucket and in the collection: nothing is rolled back.
C19_FailureKeepsEarlierFiles ==
    [][(pc = "idle" /\ pc' = "responded" /\ req'.ep = "/api_upload_image"
        /\ \E k \in 1..Len(trace') :
              trace'[k].op \in UploadRaisingSteps /\ ~trace'[k].ok)
       => /\ resp'.code = MessageCode_FAIL
          /\ resp'.data.tag = "traceback"
          /\ IsPrefix(rows, rows')
          /\ Len(rows') = Len(rows) + Cardinality(DoneIn(trace', "insert"))
          /\ objects' = objects \cup {trace'[k].data : k \in DoneIn(trace', "put_object")}
          /\ \A k \in DoneIn(trace', "insert") :
                \E j \in (Len(rows) + 1)..Len(rows') :
                   rows'[j].file_path = req'.files[trace'[k].i].filename]_vars

\* the second file of a request failed after the first was stored and
\* inserted: the answer is 201, the row and the object of the first remain
C19_Witness ==
    /\ pc = "responded"
    /\ req.ep = "/api_upload_image"
    /\ Len(req.files) = 2
    /\ resp.code = MessageCode_FAIL
    /\ \E k \in 1..Len(trace) :
          trace[k].op \in UploadRaisingSteps /\ ~trace[k].ok /\ trace[k].i = 2
    /\ \E k \in DoneIn(trace, "insert") : trace[k].i = 1
    /\ \E k \in DoneIn(trace, "put_object") : trace[k].i = 1 /\ trace[k].data \in objects
    /\ rows # <<>>
    /\ rows[Len(rows)].file_path = req.files[1].filename


\* C20: a response of /api_upload_image with code 200 has exactly one entry
\* for every uploaded file, in the order of the request, and every uploaded
\* file with a supported extension has been vectorized and inserted,
\* whatever the lengths of the categories and descriptions lists.
C20_OneEntryPerUploadedFile ==
    (pc = "responded" /\ req.ep = "/api_upload_image" /\ resp.code = MessageCode_SUCCESS)
        => /\ resp.data.tag = "result"
           /\ Len(resp.data.v) = Len(req.files)
           /\ \A k \in 1..Len(req.files) :
                 /\ resp.data.v[k].filename = req.files[k].filename
                 /\ ext_ok_exact(req.files[k].filename) =>
                       /\ \E j \in DoneIn(trace, "embed_call") : trace[j].i = k
                       /\ \E j \in DoneIn(trace, "insert") : trace[j].i = k

-----------------------------------------------------------------------------
(* /api_upload_to_minio: one entry for every file *)

\* the k-th file of the request failed: its extension is not supported, or
\* reading it or storing it raised
MinioFileFailed(k) ==
    \/ ~ext_ok_lowered(req.files[k].filename)
    \/ \E j \in 1..Len(trace) :
          trace[j].op \in {"read", "put_object"} /\ trace[j].i = k /\ ~trace[j].ok

\* C21: the data of an /api_upload_to_minio response with code 200 has one
\* entry for every uploaded file, in the order of the request, each with
\* status "success" or "fail"; a file that fails (extension not supported,
\* storage error) neither keeps the later files from being uploaded nor
\* turns the code into 201, which is answered only when the storage client
\* cannot be obtained.
C21_OneEntryPerFileWhateverFails ==
    (pc = "responded" /\ req.ep = "/api_upload_to_minio") =>
        /\ resp.code = MessageCode_FAIL <=> Failed({"minio_init"}) # {}
        /\ resp.code \in {MessageCode_SUCCESS, MessageCode_FAIL}
        /\ resp.code = MessageCode_SUCCESS =>
              /\ resp.data.tag = "result"
              /\ Len(resp.data.v) = Len(req.files)
              /\ \A k \in 1..Len(req.files) :
                    /\ resp.data.v[k].filename = req.files[k].filename
                    /\ resp.data.v[k].status \in {"success", "fail"}
                    /\ resp.data.v[k].status = "fail" <=> MinioFileFailed(k)
                    /\ ~MinioFileFailed(k) =>
                          \E j \in DoneIn(trace, "put_object") :
                             /\ trace[j].i = k
                             /\ trace[j].data \in objects
                             /\ resp.data.v[k].object_name = trace[j].data

\* the first of two files failed, the second was stored, the code is 200
C21_Witness ==
    /\ pc = "responded"
    /\ req.ep = "/api_upload_to_minio"
    /\ Len(req.files) = 2
    /\ resp.code = MessageCode_SUCCESS
    /\ MinioFileFailed(1)
    /\ resp.data.v[1].status = "fail"
    /\ resp.data.v[2].status = "success"
    /\ \E j \in DoneIn(trace, "put_object") : trace[j].i = 2

-----------------------------------------------------------------------------
(* /api_upload_image: the MinIO upload of a file and what follows it *)

\* the steps op of file k that come after step j of the trace and succeeded
DoneAfter(j, op, k) ==
    {a \in DoneIn(trace, op) : a > j /\ trace[a].i = k}

\* C22: in /api_upload_image the upload of a file to object storage is
\* attempted before its embedding call and its insert, and a failure of the
\* upload does not stop the file: it is still vectorized and inserted, and
\* the file_url reported for it is the empty string.
C22_UploadFirstAndItsFailureTolerated ==
    (pc = "responded" /\ req.ep = "/api_upload_image") =>
        /\ \A a \in At({"embed_call", "insert"}) :
              \E j \in At({"put_object"}) : j < a /\ trace[j].i = trace[a].i
        /\ \A j \in Failed({"put_object"}) :
              LET k == trace[j].i IN
              validate_image(req.files[k].data) =>
                 /\ DoneAfter(j, "embed_call", k) # {}
                 /\ DoneAfter(j, "insert", k) # {}
                 /\ resp.code = MessageCode_SUCCESS =>
                       /\ resp.data.v[k].filename = req.files[k].filename
                       /\ resp.data.v[k].file_url = <<>>

\* the upload of the first file failed; the file was inserted all the same
\* and is reported with an empty file_url
C22_Witness ==
    /\ pc = "responded"
    /\ req.ep = "/api_upload_image"
    /\ resp.code = MessageCode_SUCCESS
    /\ \E j \in Failed({"put_object"}) :
          /\ trace[j].i = 1
          /\ DoneAfter(j, "insert", 1) # {}
    /\ resp.data.v[1].file_url = <<>>
    /\ rows # <<>>

-----------------------------------------------------------------------------
(* /search: the top_k and the cosine of the request *)

\* C23: the hits returned for a searched image are never more than the
\* top_k of the search request, and the top_k and the cosine of the request
\* are those the database search is made with.
C23_RequestedTopKAndCosineUsed ==
    (pc = "responded" /\ req.ep = "/search" /\ resp.code = MessageCode_SUCCESS) =>
        /\ \A k \in 1..Len(resp.data.v.v) : Len(resp.data.v.v[k]) <= req.files.top_k
        /\ \E dist \in Distances(rows) :
              resp.data.v.v = search_data(milvus_ranking(rows, dist),
                                          req.files.top_k, req.files.cosine)

-----------------------------------------------------------------------------
(* backend/app/service/imgcompare.py, lines 111-183 and 366-411: from the  *)
(* model's response to the dict.  A text is the sequence of its lexemes:   *)
(* braces, colon, comma, white space, the two code fences, JSON strings    *)
(* (written with their quotes), JSON literals and numbers, and words.      *)

WS == " "
\* the fence of a code block (three backquotes), alone and with the word json
Fence == "FENCE"
FenceJson == "FENCEjson"
Key_is_same == "\"is_same\""
Key_confidence == "\"confidence\""
Key_reason == "\"reason\""
Key_details == "\"details\""
Str_r == "\"r\""
CJKSame == "CJK_same"

\* the lexemes that are JSON strings, with the text each holds
JsonStrings == {Key_is_same, Key_confidence, Key_reason, Key_details, Str_r}
StringValue(l) ==
    CASE l = Key_is_same -> <<"i","s","_","s","a","m","e">>
      [] l = Key_confidence -> <<"c","o","n","f","i","d","e","n","c","e">>
      [] l = Key_reason -> <<"r","e","a","s","o","n">>
      [] l = Key_details -> <<"d","e","t","a","i","l","s">>
      [] OTHER -> <<"r">>

\* the lexemes that are JSON numbers, in hundredths
JsonNumbers == {"0.9", "1.5", "5"}
NumberValue(l) == CASE l = "0.9" -> 90 [] l = "1.5" -> 150 [] OTHER -> 500

\* the JSON value of a scalar lexeme
ScalarValue(l) ==
    IF l = "true" THEN JsonBool(TRUE)
    ELSE IF l = "false" THEN JsonBool(FALSE)
    ELSE IF l = "null" THEN JsonNull
    ELSE IF l \in JsonNumbers THEN Num(NumberValue(l))
    ELSE JsonStr(StringValue(l))

IsScalar(l) == l \in {"true", "false", "null"} \cup JsonNumbers \cup JsonStrings

\* a text without its white space
NoSpace(t) == SelectSeq(t, LAMBDA l : l # WS)

\* json.loads on a text without white space: ParseValue(t, i) is the place
\* after the JSON value that begins at i, or 0 when none begins there;
\* ParseMembers(t, i) the place after the "}" of an object whose next
\* member begins at i
RECURSIVE ParseValue(_, _), ParseMembers(_, _)
ParseValue(t, i) ==
    IF i > Len(t) THEN 0
    ELSE IF IsScalar(t[i]) THEN i + 1
    ELSE IF t[i] # "{" THEN 0
    ELSE IF i + 1 <= Len(t) /\ t[i + 1] = "}" THEN i + 2
    ELSE ParseMembers(t, i + 1)

ParseMembers(t, i) ==
    IF i + 2 > Len(t) \/ t[i] \notin JsonStrings \/ t[i + 1] # ":" THEN 0
    ELSE LET j == ParseValue(t, i + 2)
         IN  IF j = 0 \/ j > Len(t) THEN 0
             ELSE IF t[j] = "}" THEN j + 1
             ELSE IF t[j] = "," THEN ParseMembers(t, j + 1)
             ELSE 0

\* the members of the object that begins at 1: the places of its keys
RECURSIVE KeyPlaces(_, _)
KeyPlaces(t, i) ==
    IF i > Len(t) \/ t[i] \notin JsonStrings THEN {}
    ELSE LET j == ParseValue(t, i + 2)
         IN  {i} \cup (IF t[j] = "," THEN KeyPlaces(t, j + 1) ELSE {})

\* an object as a value of the dict: a nested dict
JsonObject == Json("object", 0, FALSE, <<>>)

\* the value the parsed object holds for key: that of the last member with
\* the key, Missing when there is none
Member(t, key) ==
    LET places == {i \in KeyPlaces(t, 2) : t[i] = key}
        last == CHOOSE i \in places : \A j \in places : j <= i
    IN  IF places = {} THEN Missing
        ELSE IF IsScalar(t[last + 2]) THEN ScalarValue(t[last + 2])
        ELSE JsonObject

\* json.loads(json_str): a dict, a value that is no dict, or JSONDecodeError
json_loads(json_str) ==
    LET t == NoSpace(json_str)
    IN  IF ParseValue(t, 1) # Len(t) + 1
        THEN [ok |-> FALSE, dict |-> FALSE,
              v |-> [is_same |-> Missing, confidence |-> Missing, reason |-> Missing]]
        ELSE IF t[1] # "{"
        THEN [ok |-> TRUE, dict |-> FALSE,
              v |-> [is_same |-> Missing, confidence |-> Missing, reason |-> Missing]]
        ELSE [ok |-> TRUE, dict |-> TRUE,
              v |-> [is_same |-> Member(t, Key_is_same),
                     confidence |-> Member(t, Key_confidence),
                     reason |-> Member(t, Key_reason)]]


\* str.strip(), and its two halves
RECURSIVE lstrip(_)
lstrip(t) == IF t # <<>> /\ Head(t) = WS THEN lstrip(Tail(t)) ELSE t
RECURSIVE rstrip(_)
rstrip(t) == IF t # <<>> /\ t[Len(t)] = WS THEN rstrip(SubSeq(t, 1, Len(t) - 1)) ELSE t
strip(t) == rstrip(lstrip(t))

\* " ".join(parts)
RECURSIVE join(_)
join(parts) ==
    IF parts = <<>> THEN <<>>
    ELSE IF Len(parts) = 1 THEN parts[1]
    ELSE parts[1] \o <<WS>> \o join(Tail(parts))

\* the model's output: a dict whose first choice holds a message with a
\* str content ("choices_str"), with a list content ("choices_list": text
\* items {"text": ...}, plain strings, items without text such as
\* {"image": ...}, and items that are neither dict nor str) or with content
\* None ("choices_none"); a dict without choices, with a text or without
\* ("no_choices"); a str ("str"); nothing ("empty")
Output(kind, text, items) == [kind |-> kind, text |-> text, items |-> items]
Item(kind, text) == [kind |-> kind, text |-> text]

\* str(output) of the dict {"k": 1}, and str(None)
ReprOfDict == <<"{", "'k'", ":", WS, "1", "}">>
ReprOfNone == <<"None">>

\* compare_images_service, lines 124-149: the text of the output
content_of(output) ==
    LET text_items == SelectSeq(output.items, LAMBDA item : item.kind \in {"text", "str"})
        text_parts == [k \in 1..Len(text_items) |-> text_items[k].text]
    IN  CASE output.kind = "choices_list" -> join(text_parts)
          [] output.kind = "choices_str" -> output.text
          [] output.kind = "choices_none" -> ReprOfNone
          [] output.kind = "no_choices" ->
               IF output.text # <<>> THEN output.text ELSE ReprOfDict
          [] OTHER -> output.text

\* compare_images_by_url_service, lines 378-392: the text of the output
content_of_by_url(output) ==
    LET kept == SelectSeq(output.items, LAMBDA item : item.kind \in {"text", "image", "str"})
        parts == [k \in 1..Len(kept) |->
                    IF kept[k].kind = "image" THEN <<>> ELSE kept[k].text]
    IN  CASE output.kind = "choices_list" -> join(parts)
          [] output.kind = "choices_str" -> output.text
          [] output.kind = "choices_none" -> ReprOfNone
          [] output.kind = "no_choices" ->
               IF output.text # <<>> THEN output.text ELSE ReprOfDict
          [] OTHER -> output.text

\* re.search(r'\{[^{}]*"is_same"[^{}]*\}', content, re.DOTALL): the first
\* "{" that is followed, before any other brace, by "is_same" (in its
\* quotes) and then by "}"; the match runs from the one brace to the other
Closing(t, p) ==
    {q \in (p + 1)..Len(t) :
        /\ t[q] = "}"
        /\ \A k \in (p + 1)..(q - 1) : t[k] \notin {"{", "}"}
        /\ \E k \in (p + 1)..(q - 1) : t[k] = Key_is_same}

json_match(content) ==
    LET starts == {p \in 1..Len(content) : content[p] = "{" /\ Closing(content, p) # {}}
        p == CHOOSE x \in starts : \A y \in starts : x <= y
        q == CHOOSE x \in Closing(content, p) : TRUE
    IN  IF starts = {} THEN [found |-> FALSE, group |-> <<>>]
        ELSE [found |-> TRUE, group |-> SubSeq(content, p, q)]

\* re.sub(r'^```json\s*', '', s), re.sub(r'^```\s*', '', s) (three
\* backquotes are the beginning of the fence with json too) and
\* re.sub(r'\s*```$', '', s)
sub_fence_json_start(s) ==
    IF s # <<>> /\ Head(s) = FenceJson THEN lstrip(Tail(s)) ELSE s
sub_fence_start(s) ==
    IF s # <<>> /\ Head(s) = Fence THEN lstrip(Tail(s))
    ELSE IF s # <<>> /\ Head(s) = FenceJson THEN <<"json">> \o Tail(s)
    ELSE s
sub_fence_end(s) ==
    IF s # <<>> /\ s[Len(s)] = Fence THEN rstrip(SubSeq(s, 1, Len(s) - 1)) ELSE s

\* re.sub(r'^```json\s*|^```\s*|\s*```$', '', s): one pass from left to
\* right; at the beginning the first alternative that matches is taken,
\* and the third is then looked for in what is left
sub_fences(s) ==
    IF s # <<>> /\ Head(s) = FenceJson THEN sub_fence_end(lstrip(Tail(s)))
    ELSE IF s # <<>> /\ Head(s) = Fence THEN sub_fence_end(lstrip(Tail(s)))
    ELSE sub_fence_end(s)

\* lines 160-169: the text handed to json.loads
json_str_of(content) ==
    LET m == json_match(content)
    IN  IF m.found THEN m.group
        ELSE sub_fence_end(sub_fence_start(sub_fence_json_start(strip(content))))

\* lines 400-401
json_str_of_by_url(content) ==
    LET m == json_match(content)
    IN  IF m.found THEN m.group ELSE sub_fences(strip(content))

\* "true" in content.lower() or "相同" in content or "同一个" in content
says_same(content) ==
    \E k \in 1..Len(content) : content[k] \in {"true", "True", CJKSame}

\* lines 171-183 and 403-411: json.loads, and the dict made of the text
\* when it raises JSONDecodeError
result_dict_of(content, json_str) ==
    LET parsed == json_loads(json_str)
    IN  IF parsed.ok THEN parsed
        ELSE [ok |-> TRUE, dict |-> TRUE,
              v |-> [is_same |-> JsonBool(says_same(content)),
                     confidence |-> Num(50),
                     reason |-> JsonStr(content)]]

\* lines 185-196 and 413-418 on what json.loads gave: a value that is no
\* dict has no get
result_of(result_dict) ==
    IF ~result_dict.dict THEN Raised("AttributeError", <<>>)
    ELSE ImageCompareResult(result_dict.v)

\* compare_images_service from the response of the model on (lines
\* 111-210): vl is the status code and the output
compare_images_service_on(vl) ==
    LET content == content_of(vl.output)
    IN  IF vl.status_code # 200 THEN Raised("Exception", <<>>)
        ELSE IF vl.output.kind = "empty" THEN Raised("ValueError", <<>>)
        ELSE IF content = <<>> THEN Raised("ValueError", <<>>)
        ELSE result_of(result_dict_of(content, json_str_of(content)))

\* compare_images_by_url_service from the response of the model on (lines
\* 366-428)
compare_images_by_url_service_on(vl) ==
    LET content == content_of_by_url(vl.output)
    IN  IF vl.status_code # 200 THEN Raised("Exception", <<>>)
        ELSE IF vl.output.kind = "empty" THEN Raised("ValueError", <<>>)
        ELSE IF content = <<>> THEN Raised("ValueError", <<>>)
        ELSE result_of(result_dict_of(content, json_str_of_by_url(content)))


\* the texts of the model: something before (nothing, a fence, two fences,
\* a word, a brace group with "is_same" that is no JSON, the format asked
\* for with its true/false), an answer, and something after (nothing, a
\* fence, a word)
TextBefore ==
    { <<>>, <<FenceJson, WS>>, <<FenceJson, WS, Fence, WS>>, <<"yes", WS>>,
      <<"{", Key_is_same, "}", WS>>,
      <<"{", Key_is_same, ":", WS, "true", "/", "false", "}", WS>> }
TextAnswer ==
    { <<"{", Key_is_same, ":", WS, "true", ",", WS, Key_confidence, ":", WS, "0.9", ",",
        WS, Key_reason, ":", WS, Str_r, "}">>,
      <<"{", Key_is_same, ":", "false", ",", Key_confidence, ":", "1.5", "}">>,
      <<"{", Key_is_same, ":", "true", ",", Key_details, ":", "{", Key_reason, ":", Str_r,
        "}", "}">>,
      <<"{", Key_confidence, ":", "0.9", "}">>,
      <<"{", Key_is_same, ":", WS, "True", "}">>,
      <<"true">>, <<"5">>, <<"True">>, <<"yes">>, <<CJKSame>>, <<>> }
TextAfter == { <<>>, <<WS, Fence>>, <<WS, "yes">> }
TextSamples == { b \o a \o e : b \in TextBefore, a \in TextAnswer, e \in TextAfter }

\* the contents of a message that are lists
ItemLists ==
    { <<Item("text", a)>> : a \in TextAnswer }
      \cup { <<Item("text", <<"yes">>), Item("text", a)>> : a \in TextAnswer }
      \cup { <<Item("image", <<>>), Item("text", <<"yes">>)>>,
             <<Item("str", <<"true">>), Item("other", <<>>)>>,
             <<Item("other", <<>>)>>, <<>> }

\* the responses of the model
VlResponses ==
    { [status_code |-> 200, output |-> Output(k, t, <<>>)] :
        k \in {"choices_str", "no_choices", "str"}, t \in TextSamples }
      \cup { [status_code |-> 200, output |-> Output("choices_list", <<>>, l)] :
               l \in ItemLists }
      \cup { [status_code |-> 200, output |-> Output("choices_none", <<>>, <<>>)],
             [status_code |-> 200, output |-> Output("empty", <<>>, <<>>)],
             [status_code |-> 400, output |-> Output("empty", <<>>, <<>>)] }

InitText ==
    /\ rows = <<>>
    /\ objects = {}
    /\ minio_client = "unset"
    /\ pc = "idle"
    /\ req \in [ep : {"MultiModalConversation.call"}, vl : VlResponses]
    /\ resp = NoResp
    /\ trace = <<>>
    /\ out = NoOut

CompareImagesService ==
    /\ pc = "idle"
    /\ out' = [kind |-> "compare_images_service", r |-> compare_images_service_on(req.vl)]
    /\ pc' = "returned"
    /\ UNCHANGED <<rows, objects, minio_client, req, resp, trace>>

CompareImagesByUrlService ==
    /\ pc = "idle"
    /\ out' = [kind |-> "compare_images_by_url_service",
               r |-> compare_images_by_url_service_on(req.vl)]
    /\ pc' = "returned"
    /\ UNCHANGED <<rows, objects, minio_client, req, resp, trace>>

NextText == CompareImagesService \/ CompareImagesByUrlService

SpecText == InitText /\ [][NextText]_vars

\* the text of the response, when it is given as such
TextOf(vl) == vl.output.text

\* the JSON objects without nested braces and with the key "is_same" that
\* a text holds: the places where one begins
FlatObjectsWithIsSame(t) ==
    {p \in 1..Len(t) :
        \E q \in Closing(t, p) :
           LET o == json_loads(SubSeq(t, p, q))
           IN  o.ok /\ o.dict /\ o.v.is_same.kind # "missing"}

\* no JSON can be parsed from the text: neither the text, with or without
\* its fences, nor a brace group of it is JSON
NoJsonIn(t) ==
    /\ ~json_loads(t).ok
    /\ ~json_loads(json_str_of(t)).ok
    /\ \A p \in 1..Len(t), q \in 1..Len(t) :
          (p < q /\ t[p] = "{" /\ t[q] = "}") => ~json_loads(SubSeq(t, p, q)).ok

\* the response gives its text as a str
GivesText ==
    /\ pc = "returned"
    /\ req.vl.status_code = 200
    /\ req.vl.output.kind \in {"choices_str", "str"}
    /\ TextOf(req.vl) # <<>>

\* C24 as stated: when the model's text holds a brace-delimited JSON object
\* without nested braces that has the key "is_same", the result is taken
\* from that object alone, whatever stands around it; when no JSON can be
\* parsed from the text, the result is is_same = (the text holds "true" in
\* any letter case, or one of the two Chinese words for "same"),
\* confidence 0.5 and reason the whole text.
C24_ResultFromTheJsonObjectOrTheText ==
    GivesText =>
        LET t == TextOf(req.vl) IN
        /\ FlatObjectsWithIsSame(t) # {} =>
              \E p \in FlatObjectsWithIsSame(t) :
                 \E q \in Closing(t, p) :
                    out.r = ImageCompareResult(json_loads(SubSeq(t, p, q)).v)
        /\ NoJsonIn(t) =>
              out.r = Returned(ResultOf([is_same |-> says_same(t), confidence |-> Num(50),
                                         reason |-> t]), <<>>)

\* a content that is a list holds text items only
OnlyTextItems ==
    \A k \in 1..Len(req.vl.output.items) : req.vl.output.items[k].kind = "text"

\* C25: for the same response of the model (status code and output: a dict
\* with choices, a dict without, a string, a message content that is a list
\* of text items) compare_images_service and compare_images_by_url_service
\* return the same ImageCompareResult or fail with the same kind of error.
C25_BothServicesAgree ==
    /\ (pc = "returned" /\ OnlyTextItems /\ out.kind = "compare_images_service") =>
          out.r = compare_images_by_url_service_on(req.vl)
    /\ (pc = "returned" /\ OnlyTextItems /\ out.kind = "compare_images_by_url_service") =>
          out.r = compare_images_service_on(req.vl)

====
